---------------------------- MODULE Spec2Model ----------------------------
(***************************************************************************)
(* A model of the command-line toolkit fxfn/cmd: the token scanner         *)
(* (parseArgs, parseAdvancedArgs), the value interpreter                   *)
(* (parseAdvancedValue and its helpers), the entry grouper and validator   *)
(* (validateAdvancedArgs, isArraySchemaAtPath), the basic option parser    *)
(* (parseOptions), the command resolver (resolveCommand), the help         *)
(* command's handler and the dispatcher (execute).                         *)
(*                                                                         *)
(* Strings are sequences of one-character strings, so that splitting,      *)
(* searching and trimming are computed as the code computes them.          *)
(* JavaScript values are tagged records:                                   *)
(*   [t |-> "bool", b |-> TRUE]   [t |-> "num", n |-> 5]                   *)
(*   [t |-> "str", s |-> <<"a">>] [t |-> "null"]  [t |-> "undef"]          *)
(*   [t |-> "arr", a |-> <<v1, v2>>, o |-> f]                              *)
(*   [t |-> "obj", o |-> f]                                                *)
(* with f a function from the own named properties to their values.        *)
(***************************************************************************)
EXTENDS Integers, Sequences, FiniteSets, TLC

VARIABLES
  input,        \* the argument vector given to execute / to the parser
  registry,     \* container.resolveAll(ICommand): registered classes, in order
  schema,       \* the schema handed to validation
  pc,           \* position of the run
  args,         \* execute: the positional prefix (parseArgs)
  command,      \* execute: the resolved command class, or NoCommand
  caught,       \* execute: the error resolveCommand threw (e), or "none"
  exitCode,     \* execute: how the command's handler ended, or NoResult
  parsedArgs,   \* the ParsedArgument list (parseAdvancedArgs)
  parsedObject, \* the object handed to schema.safeParse
  options,      \* the validation outcome
  result,       \* how execute ended: a returned code or a thrown error
  handlerCalls, \* number of invocations of the resolved command's handler
  helpCalls,    \* number of invocations of the fallback HelpCommand handler
  log,          \* what was written to the console, in order
  protoProps,   \* properties written to the shared Object.prototype so far
  remaining,    \* resolveCommand: the positional tokens not yet consumed
  steps         \* resolveCommand: lookups made so far, one per token consumed

vars == <<input, registry, schema, pc, args, command, caught, exitCode,
          parsedArgs, parsedObject, options, result, handlerCalls, helpCalls,
          log, protoProps, remaining, steps>>

---------------------------------------------------------------------------
(* Bounds of the model.                                                    *)

\* longest argument vector given to execute
MaxTokens == 3
\* longest flag vector given to the scan-and-validate pipeline
MaxFlags == 3

---------------------------------------------------------------------------
(* JavaScript string primitives over character sequences.                  *)

Digits == {"0", "1", "2", "3", "4", "5", "6", "7", "8", "9"}

\* String.prototype.startsWith, for a prefix p
startsWith(s, p) == Len(s) >= Len(p) /\ SubSeq(s, 1, Len(p)) = p

\* String.prototype.endsWith
endsWith(s, p) == Len(s) >= Len(p) /\ SubSeq(s, Len(s) - Len(p) + 1, Len(s)) = p

\* String.prototype.includes, for a one-character needle
includes(s, c) == \E i \in 1..Len(s) : s[i] = c

\* String.prototype.indexOf for a one-character needle; positions are
\* 1-based here and 0 stands for JavaScript's -1
indexOf(s, c) ==
  IF includes(s, c) THEN CHOOSE i \in 1..Len(s) : s[i] = c /\ \A j \in 1..(i-1) : s[j] # c
  ELSE 0

\* String.prototype.split on a one-character separator
RECURSIVE split(_, _)
split(s, c) ==
  LET i == indexOf(s, c) IN
  IF i = 0 THEN <<s>>
  ELSE <<SubSeq(s, 1, i - 1)>> \o split(SubSeq(s, i + 1, Len(s)), c)

\* Array.prototype.join with a one-character separator
RECURSIVE join(_, _)
join(parts, c) ==
  IF Len(parts) = 0 THEN <<>>
  ELSE IF Len(parts) = 1 THEN parts[1]
  ELSE parts[1] \o <<c>> \o join(Tail(parts), c)

\* String.prototype.trim (the only white space of the alphabet is the blank)
RECURSIVE trimStart(_)
trimStart(s) == IF Len(s) > 0 /\ s[1] = " " THEN trimStart(Tail(s)) ELSE s

RECURSIVE trimEnd(_)
trimEnd(s) ==
  IF Len(s) > 0 /\ s[Len(s)] = " " THEN trimEnd(SubSeq(s, 1, Len(s) - 1)) ELSE s

trim(s) == trimEnd(trimStart(s))

\* String.prototype.toLowerCase on the letters of the alphabet
lowerChar(c) ==
  CASE c = "R" -> "r" [] c = "H" -> "h" [] c = "E" -> "e" [] c = "L" -> "l"
    [] c = "P" -> "p" [] c = "C" -> "c" [] c = "O" -> "o" [] c = "T" -> "t"
    [] OTHER -> c

toLowerCase(s) == [i \in 1..Len(s) |-> lowerChar(s[i])]

\* value of a non-empty sequence of decimal digits
digitValue(c) ==
  CASE c = "0" -> 0 [] c = "1" -> 1 [] c = "2" -> 2 [] c = "3" -> 3 [] c = "4" -> 4
    [] c = "5" -> 5 [] c = "6" -> 6 [] c = "7" -> 7 [] c = "8" -> 8 [] c = "9" -> 9

RECURSIVE decimalValue(_)
decimalValue(ds) ==
  IF Len(ds) = 0 THEN 0
  ELSE 10 * decimalValue(SubSeq(ds, 1, Len(ds) - 1)) + digitValue(ds[Len(ds)])

allDigits(s) == Len(s) > 0 /\ \A i \in 1..Len(s) : s[i] \in Digits

\* Number(value) for the numeric forms of the alphabet: white space is
\* trimmed, the empty string is 0, an optionally signed run of decimal
\* digits is its value, anything else is NaN.  (Fractions, exponents, hex
\* literals and Infinity are outside the alphabet the model draws from.)
NumberOf(s) ==
  LET t == trim(s) IN
  IF Len(t) = 0 THEN [nan |-> FALSE, n |-> 0]
  ELSE IF allDigits(t) THEN [nan |-> FALSE, n |-> decimalValue(t)]
  ELSE IF t[1] = "-" /\ allDigits(Tail(t)) THEN [nan |-> FALSE, n |-> 0 - decimalValue(Tail(t))]
  ELSE IF t[1] = "+" /\ allDigits(Tail(t)) THEN [nan |-> FALSE, n |-> decimalValue(Tail(t))]
  ELSE [nan |-> TRUE, n |-> 0]

---------------------------------------------------------------------------
(* JavaScript values.                                                      *)

Bool(b) == [t |-> "bool", b |-> b]
Num(n) == [t |-> "num", n |-> n]
Str(s) == [t |-> "str", s |-> s]
Null == [t |-> "null"]
Undefined == [t |-> "undef"]
Arr(a) == [t |-> "arr", a |-> a, o |-> <<>>]
Obj(o) == [t |-> "obj", o |-> o]
EmptyObj == Obj(<<>>)

\* typeof v === 'object' && v !== null
isObjectLike(v) == v.t \in {"obj", "arr"}

\* o with own property k set to v
setProp(o, k, v) == [x \in (DOMAIN o) \cup {k} |-> IF x = k THEN v ELSE o[x]]

\* names every object inherits from Object.prototype
ProtoMembers ==
  { <<"c","o","n","s","t","r","u","c","t","o","r">>,
    <<"t","o","S","t","r","i","n","g">>,
    <<"v","a","l","u","e","O","f">>,
    <<"h","a","s","O","w","n","P","r","o","p","e","r","t","y">>,
    <<"_","_","p","r","o","t","o","_","_">> }


S_proto == <<"_","_","p","r","o","t","o","_","_">>

\* JavaScript truthiness
truthy(v) ==
  CASE v.t = "bool" -> v.b
    [] v.t = "num" -> v.n # 0
    [] v.t = "str" -> Len(v.s) > 0
    [] v.t \in {"null", "undef"} -> FALSE
    [] OTHER -> TRUE  \* objects, arrays, functions

---------------------------------------------------------------------------
(* The value interpreter (parse-advanced-args).                            *)

\* parsePrimitiveValue: true/false, null, undefined, a finite number, or
\* the string itself
parsePrimitiveValue(value) ==
  IF value = <<"t","r","u","e">> THEN Bool(TRUE)
  ELSE IF value = <<"f","a","l","s","e">> THEN Bool(FALSE)
  ELSE IF value = <<"n","u","l","l">> THEN Null
  ELSE IF value = <<"u","n","d","e","f","i","n","e","d">> THEN Undefined
  ELSE IF ~NumberOf(value).nan THEN Num(NumberOf(value).n)
  ELSE Str(value)

\* the object reached from the own-property function f through the keys
\* of path, every one of which names an object
RECURSIVE getPath(_, _)
getPath(f, path) ==
  IF Len(path) = 0 THEN f ELSE getPath(f[path[1]].o, Tail(path))

\* f with property k of the object at path set to v
RECURSIVE putPath(_, _, _, _)
putPath(f, path, k, v) ==
  IF Len(path) = 0 THEN setProp(f, k, v)
  ELSE setProp(f, path[1],
               [f[path[1]] EXCEPT !.o = putPath(f[path[1]].o, Tail(path), k, v)])

\* One iteration of setNestedValue's loop, for the non-final key k.  A walk
\* w is the heap (obj: the own properties of the result object, proto: the
\* properties written to Object.prototype), the object `current` refers to
\* (root and path) and whether an assignment threw.  `key in current` and
\* current[key] follow the prototype chain: __proto__ of an ordinary object
\* is Object.prototype itself, the other inherited members are functions.
walkStep(w, k) ==
  LET cur == getPath(w[w.root], w.path)
      atProto == w.root = "proto" /\ Len(w.path) = 0
      fresh == [w EXCEPT ![w.root] = putPath(w[w.root], w.path, k, EmptyObj),
                         !.path = w.path \o <<k>>]
  IN
  IF w.threw THEN w
  ELSE IF k \in DOMAIN cur THEN
    IF isObjectLike(cur[k]) THEN [w EXCEPT !.path = w.path \o <<k>>] ELSE fresh
  ELSE IF k = S_proto THEN
    \* Object.prototype.__proto__ is null, and assigning {} to it throws
    \* (an immutable prototype object)
    IF atProto THEN [w EXCEPT !.threw = TRUE]
    ELSE [w EXCEPT !.root = "proto", !.path = <<>>]
  ELSE IF ~atProto /\ k \in DOMAIN w.proto /\ isObjectLike(w.proto[k]) THEN
    [w EXCEPT !.root = "proto", !.path = <<k>>]
  ELSE fresh

RECURSIVE walkKeys(_, _)
walkKeys(w, keys) ==
  IF Len(keys) = 0 THEN w ELSE walkKeys(walkStep(w, keys[1]), Tail(keys))

\* The loop of setNestedValue and the assignment after it: walk all keys
\* but the last, creating objects where there is none, then assign v to
\* the last key.  An assignment to __proto__ sets no property (it is the
\* prototype's setter that runs).
assignAtPath(heap, path, v) ==
  LET keys == split(path, ".")
      w == walkKeys([obj |-> heap.obj, proto |-> heap.proto, threw |-> heap.threw,
                     root |-> "obj", path |-> <<>>],
                    SubSeq(keys, 1, Len(keys) - 1))
      lastKey == keys[Len(keys)]
      done == IF w.threw \/ lastKey = S_proto THEN w
              ELSE [w EXCEPT ![w.root] = putPath(w[w.root], w.path, lastKey, v)]
  IN [obj |-> done.obj, proto |-> done.proto, threw |-> done.threw]

\* setNestedValue(obj, path, value) of parse-advanced-args: the value is a
\* string and is stored coerced
setNestedValue(heap, path, value) ==
  assignAtPath(heap, path, parsePrimitiveValue(value))

\* A variant of skipPlain that rejoins no chunk; C15's formula tells it
\* from skipPlain.
skipNone(parts, j) == j

\* the index after the chunks that follow chunk i and contain no '='
RECURSIVE skipPlain(_, _)
skipPlain(parts, j) ==
  IF j <= Len(parts) /\ ~includes(parts[j], "=") THEN skipPlain(parts, j + 1) ELSE j

\* parseObjectValue's loop from chunk i on; st is the heap plus
\* hasValidKeyValuePairs
RECURSIVE objectLoop(_, _, _)
objectLoop(parts, i, st) ==
  IF i > Len(parts) THEN st
  ELSE
    LET part == trim(parts[i])
        equalIndex == indexOf(part, "=")
        keyPath == trim(SubSeq(part, 1, equalIndex - 1))
        val0 == trim(SubSeq(part, equalIndex + 1, Len(part)))
        j == skipPlain(parts, i + 1)
        val == IF j > i + 1 THEN val0 \o <<",">> \o join(SubSeq(parts, i + 1, j - 1), ",")
               ELSE val0
    IN
    IF equalIndex # 0 /\ Len(keyPath) > 0 THEN
      objectLoop(parts, j,
                 [heap |-> setNestedValue(st.heap, keyPath, val), has |-> TRUE])
    ELSE objectLoop(parts, i + 1, st)

\* parseObjectValue(value): the pairs of a comma-separated key=value list
parseObjectValue(value, proto) ==
  LET st == objectLoop(split(value, ","), 1,
                       [heap |-> [obj |-> <<>>, proto |-> proto, threw |-> FALSE],
                        has |-> FALSE])
  IN [isObject |-> st.has /\ DOMAIN st.heap.obj # {},
      value |-> Obj(st.heap.obj),
      proto |-> st.heap.proto,
      threw |-> st.heap.threw]

---------------------------------------------------------------------------
(* JSON.parse, for the JSON texts of the alphabet: numbers without         *)
(* fraction or exponent, true, false, null, arrays of these (nested), and  *)
(* the empty object.  (The alphabet has no quote and no colon, so no       *)
(* string and no non-empty object can be written.)  A parse state is       *)
(* [ok, v, next]: whether a value was read, the value, and the position    *)
(* after it.                                                               *)

RECURSIVE jsonSkip(_, _)
jsonSkip(s, i) == IF i <= Len(s) /\ s[i] = " " THEN jsonSkip(s, i + 1) ELSE i

jsonFail == [ok |-> FALSE, v |-> Null, next |-> 0]

\* the position after the run of digits that starts at i
RECURSIVE digitsEnd(_, _)
digitsEnd(s, i) == IF i <= Len(s) /\ s[i] \in Digits THEN digitsEnd(s, i + 1) ELSE i

jsonNumber(s, i) ==
  LET neg == i <= Len(s) /\ s[i] = "-"
      d == IF neg THEN i + 1 ELSE i
      e == digitsEnd(s, d)
  IN
  IF e = d THEN jsonFail
  ELSE IF s[d] = "0" /\ e > d + 1 THEN jsonFail
  ELSE [ok |-> TRUE,
        v |-> Num(IF neg THEN 0 - decimalValue(SubSeq(s, d, e - 1))
                  ELSE decimalValue(SubSeq(s, d, e - 1))),
        next |-> e]

jsonWord(s, i, w, v) ==
  IF i + Len(w) - 1 <= Len(s) /\ SubSeq(s, i, i + Len(w) - 1) = w
  THEN [ok |-> TRUE, v |-> v, next |-> i + Len(w)]
  ELSE jsonFail

RECURSIVE jsonValue(_, _)
RECURSIVE jsonElements(_, _, _)

\* the elements of an array from position i on, acc holding those read
jsonElements(s, i, acc) ==
  LET e == jsonValue(s, jsonSkip(s, i))
      k == jsonSkip(s, e.next)
  IN
  IF ~e.ok \/ k > Len(s) THEN jsonFail
  ELSE IF s[k] = "]" THEN [ok |-> TRUE, v |-> Arr(Append(acc, e.v)), next |-> k + 1]
  ELSE IF s[k] = "," THEN jsonElements(s, k + 1, Append(acc, e.v))
  ELSE jsonFail

jsonValue(s, i) ==
  IF i > Len(s) THEN jsonFail
  ELSE IF s[i] = "[" THEN
    LET k == jsonSkip(s, i + 1) IN
    IF k <= Len(s) /\ s[k] = "]" THEN [ok |-> TRUE, v |-> Arr(<<>>), next |-> k + 1]
    ELSE jsonElements(s, i + 1, <<>>)
  ELSE IF s[i] = "{" THEN
    LET k == jsonSkip(s, i + 1) IN
    IF k <= Len(s) /\ s[k] = "}" THEN [ok |-> TRUE, v |-> EmptyObj, next |-> k + 1]
    ELSE jsonFail
  ELSE IF s[i] = "t" THEN jsonWord(s, i, <<"t","r","u","e">>, Bool(TRUE))
  ELSE IF s[i] = "f" THEN jsonWord(s, i, <<"f","a","l","s","e">>, Bool(FALSE))
  ELSE IF s[i] = "n" THEN jsonWord(s, i, <<"n","u","l","l">>, Null)
  ELSE jsonNumber(s, i)

\* JSON.parse(text): ok is FALSE where JSON.parse throws a SyntaxError
jsonParse(s) ==
  LET r == jsonValue(s, jsonSkip(s, 1)) IN
  IF r.ok /\ jsonSkip(s, r.next) = Len(s) + 1 THEN r ELSE jsonFail

\* parts.map(p => p.trim()).filter(Boolean)
RECURSIVE trimmedNonEmpty(_)
trimmedNonEmpty(parts) ==
  IF Len(parts) = 0 THEN <<>>
  ELSE IF Len(trim(parts[1])) = 0 THEN trimmedNonEmpty(Tail(parts))
  ELSE <<trim(parts[1])>> \o trimmedNonEmpty(Tail(parts))

\* An outcome of parseAdvancedValue: the typed value and its kind, the
\* shared Object.prototype after the call, and threw where the call ends
\* with a TypeError.
Interpreted(v, type, proto) == [value |-> v, type |-> type, proto |-> proto, threw |-> FALSE]

\* the last rule: the primitive coercion of the whole string
asPrimitive(value, proto) == Interpreted(parsePrimitiveValue(value), "primitive", proto)

\* A variant of asList that leaves comma text a literal string; C2's
\* formula tells it from asList.
asListLiteral(value, proto, parts) == asPrimitive(value, proto)

\* A variant of asList that coerces each piece on its own; C14's formula
\* tells it from asList.
asListCoerced(value, proto, parts) ==
  IF includes(value, ",") /\ Len(parts) > 1
  THEN Interpreted(Arr([i \in 1..Len(parts) |-> parsePrimitiveValue(parts[i])]), "array", proto)
  ELSE asPrimitive(value, proto)

\* the comma-separated list rule, parts being the trimmed non-empty pieces
asList(value, proto, parts) ==
  IF includes(value, ",") /\ Len(parts) > 1 THEN
    IF \A i \in 1..Len(parts) : ~NumberOf(parts[i]).nan
    THEN Interpreted(Arr([i \in 1..Len(parts) |-> Num(NumberOf(parts[i]).n)]), "array", proto)
    ELSE Interpreted(Arr([i \in 1..Len(parts) |-> Str(parts[i])]), "array", proto)
  ELSE asPrimitive(value, proto)

\* the object-literal rule, parsed being parseObjectValue's answer; a
\* value with '=' that yields no pair is coerced as a primitive
asObject(value, parsed) ==
  IF parsed.threw THEN
    [value |-> Undefined, type |-> "primitive", proto |-> parsed.proto, threw |-> TRUE]
  ELSE IF parsed.isObject THEN Interpreted(parsed.value, "object", parsed.proto)
  ELSE asPrimitive(value, parsed.proto)

\* A variant of afterJson that reports every parsed JSON text as an
\* object; C29's formula tells it from afterJson.
afterJsonObject(value, proto, json) ==
  IF json.ok THEN Interpreted(json.v, "object", proto)
  ELSE IF includes(value, "=") THEN asObject(value, parseObjectValue(value, proto))
  ELSE asList(value, proto, trimmedNonEmpty(split(value, ",")))

\* the rules after the JSON rule, json being JSON.parse's answer
afterJson(value, proto, json) ==
  IF json.ok THEN
    Interpreted(json.v, IF json.v.t = "arr" THEN "array" ELSE "object", proto)
  ELSE IF includes(value, "=") THEN asObject(value, parseObjectValue(value, proto))
  ELSE asList(value, proto, trimmedNonEmpty(split(value, ",")))

\* parseAdvancedValue(value); proto is the shared Object.prototype before
\* the call
parseAdvancedValue(value, proto) ==
  IF Len(value) = 0 THEN Interpreted(Bool(TRUE), "primitive", proto)
  ELSE IF \/ startsWith(value, <<"{">>) /\ endsWith(value, <<"}">>)
          \/ startsWith(value, <<"[">>) /\ endsWith(value, <<"]">>)
  THEN afterJson(value, proto, jsonParse(value))
  ELSE afterJson(value, proto, jsonFail)

\* A variant of stripDashes that removes a double hyphen only; C19's
\* formula tells it from stripDashes.
stripDoubleDash(arg) ==
  IF startsWith(arg, <<"-", "-">>) THEN SubSeq(arg, 3, Len(arg)) ELSE arg

\* arg.replace(/^--?/, ''): one or two leading hyphens removed
stripDashes(arg) ==
  IF startsWith(arg, <<"-", "-">>) THEN SubSeq(arg, 3, Len(arg))
  ELSE IF startsWith(arg, <<"-">>) THEN SubSeq(arg, 2, Len(arg))
  ELSE arg

\* result.push of a flag with a value, pv being parseAdvancedValue's
\* answer
pushParsed(st, key, arg, pv) ==
  [entries |-> IF pv.threw THEN st.entries
               ELSE Append(st.entries, [key |-> key, value |-> pv.value,
                                        original |-> arg, type |-> pv.type]),
   proto |-> pv.proto,
   threw |-> pv.threw]

\* A variant of scanFlag that splits the token at its last '='; C18's
\* formula tells it from scanFlag.
scanFlagLast(st, arg, cleanArg, equalIndex) ==
  IF equalIndex = 0 THEN
    [st EXCEPT !.entries = Append(@, [key |-> cleanArg, value |-> Bool(TRUE),
                                      original |-> arg, type |-> "primitive"])]
  ELSE
    pushParsed(st,
               SubSeq(cleanArg, 1,
                      (CHOOSE e \in 1..Len(cleanArg) :
                         cleanArg[e] = "=" /\ \A m \in e + 1..Len(cleanArg) : cleanArg[m] # "=") - 1),
               arg,
               parseAdvancedValue(
                 SubSeq(cleanArg,
                        (CHOOSE e \in 1..Len(cleanArg) :
                           cleanArg[e] = "=" /\ \A m \in e + 1..Len(cleanArg) : cleanArg[m] # "=") + 1,
                        Len(cleanArg)),
                 st.proto))

\* one flag token, cleanArg being the token without its leading hyphens
\* and equalIndex the position of its first '=' (0 if it has none)
scanFlag(st, arg, cleanArg, equalIndex) ==
  IF equalIndex = 0 THEN
    [st EXCEPT !.entries = Append(@, [key |-> cleanArg, value |-> Bool(TRUE),
                                      original |-> arg, type |-> "primitive"])]
  ELSE
    pushParsed(st, SubSeq(cleanArg, 1, equalIndex - 1), arg,
               parseAdvancedValue(SubSeq(cleanArg, equalIndex + 1, Len(cleanArg)), st.proto))

\* A variant of scanLoop that stops at the first positional token; C16's
\* formula tells it from scanLoop.
RECURSIVE scanLoopLeading(_, _, _)
scanLoopLeading(tokens, i, st) ==
  IF i > Len(tokens) \/ st.threw \/ ~startsWith(tokens[i], <<"-">>) THEN st
  ELSE scanLoopLeading(tokens, i + 1,
                       scanFlag(st, tokens[i], stripDashes(tokens[i]),
                                indexOf(stripDashes(tokens[i]), "=")))

\* parseAdvancedArgs's loop from token i on; st holds the entries pushed so
\* far, Object.prototype, and whether a TypeError ended the call
RECURSIVE scanLoop(_, _, _)
scanLoop(tokens, i, st) ==
  IF i > Len(tokens) \/ st.threw THEN st
  ELSE IF ~startsWith(tokens[i], <<"-">>) THEN scanLoop(tokens, i + 1, st)
  ELSE scanLoop(tokens, i + 1,
                scanFlag(st, tokens[i], stripDashes(tokens[i]),
                         indexOf(stripDashes(tokens[i]), "=")))

\* parseAdvancedArgs(input): one ParsedArgument per flag token
parseAdvancedArgs(tokens, proto) ==
  scanLoop(tokens, 1, [entries |-> <<>>, proto |-> proto, threw |-> FALSE])

---------------------------------------------------------------------------
(* Schemas.  A schema node is a record whose field type is the node's      *)
(* _def.type: "string", "number", "boolean", "any", "array" (element),     *)
(* "object" (shape: the fields in declaration order, each [key, schema]),  *)
(* "union" (options) or "optional" (innerType).                            *)

ZString == [type |-> "string"]
ZNumber == [type |-> "number"]
ZBoolean == [type |-> "boolean"]
ZAny == [type |-> "any"]
ZArray(element) == [type |-> "array", element |-> element]
ZObject(shape) == [type |-> "object", shape |-> shape]
ZUnion(opts) == [type |-> "union", options |-> opts]
ZOptional(inner) == [type |-> "optional", innerType |-> inner]
Field(key, sch) == [key |-> key, schema |-> sch]

\* shape[seg]: the schema of the field named seg, if the shape has one
hasField(shape, seg) == \E i \in 1..Len(shape) : shape[i].key = seg
fieldOf(shape, seg) == shape[CHOOSE i \in 1..Len(shape) : shape[i].key = seg].schema

\* the walk of isArraySchemaAtPath over the segments from i on; the result
\* is [found, node]
RECURSIVE schemaWalk(_, _, _)
schemaWalk(current, segments, i) ==
  IF i > Len(segments) THEN [found |-> TRUE, node |-> current]
  ELSE IF current.type = "object" /\ hasField(current.shape, segments[i])
  THEN schemaWalk(fieldOf(current.shape, segments[i]), segments, i + 1)
  ELSE [found |-> FALSE, node |-> current]

\* A variant of isArraySchemaAtPath that takes only an array node, as the
\* function of the same name in parse-options does; C13's formula tells it
\* from isArraySchemaAtPath.
isArraySchemaAtPathPlain(sch, path) ==
  /\ schemaWalk(sch, split(path, "."), 1).found
  /\ schemaWalk(sch, split(path, "."), 1).node.type = "array"

\* isArraySchemaAtPath(schema, path): the node at the path is an array, or
\* a union one of whose options is an array
isArraySchemaAtPath(sch, path) ==
  LET w == schemaWalk(sch, split(path, "."), 1) IN
  /\ w.found
  /\ \/ w.node.type = "array"
     \/ /\ w.node.type = "union"
        /\ \E i \in 1..Len(w.node.options) : w.node.options[i].type = "array"

\* an array index as a path segment (the decimal digits of i)
RECURSIVE indexText(_)
indexText(i) ==
  LET d == <<"0","1","2","3","4","5","6","7","8","9">> IN
  IF i < 10 THEN <<d[i + 1]>> ELSE indexText(i \div 10) \o <<d[(i % 10) + 1]>>

\* input[key] and `key in input` for the object with own properties o,
\* through the properties written to Object.prototype
hasProp(o, k, proto) == k \in DOMAIN o \/ k \in DOMAIN proto
propOf(o, k, proto) ==
  IF k \in DOMAIN o THEN o[k] ELSE IF k \in DOMAIN proto THEN proto[k] ELSE Undefined

Issue(path, code) == [path |-> path, code |-> code]

\* schema.safeParse(value), as the validation library (zod v4) computes
\* it: the parsed value and the issues found, in order.  An object schema
\* checks every field of its shape in declaration order, collects the
\* issues of all of them and drops the keys the shape does not name.
RECURSIVE zodRun(_, _, _, _)
RECURSIVE zodFields(_, _, _, _, _, _)
RECURSIVE zodItems(_, _, _, _, _, _)
RECURSIVE zodOptions(_, _, _, _, _)

zodFields(shape, i, inp, path, proto, acc) ==
  IF i > Len(shape) THEN acc
  ELSE
    LET key == shape[i].key
        r == zodRun(shape[i].schema, propOf(inp, key, proto), path \o <<key>>, proto)
        out == IF r.value = Undefined /\ ~hasProp(inp, key, proto) THEN acc.value
               ELSE setProp(acc.value, key, r.value)
    IN zodFields(shape, i + 1, inp, path, proto,
                 [value |-> out, issues |-> acc.issues \o r.issues])

zodItems(element, i, items, path, proto, acc) ==
  IF i > Len(items) THEN acc
  ELSE
    LET r == zodRun(element, items[i], path \o <<indexText(i - 1)>>, proto) IN
    zodItems(element, i + 1, items, path, proto,
             [value |-> Append(acc.value, r.value), issues |-> acc.issues \o r.issues])

zodOptions(opts, i, value, path, proto) ==
  IF i > Len(opts) THEN [value |-> value, issues |-> <<Issue(path, "invalid_union")>>]
  ELSE
    LET r == zodRun(opts[i], value, path, proto) IN
    IF Len(r.issues) = 0 THEN r ELSE zodOptions(opts, i + 1, value, path, proto)

zodRun(sch, value, path, proto) ==
  LET bad == [value |-> value, issues |-> <<Issue(path, "invalid_type")>>]
      good == [value |-> value, issues |-> <<>>]
  IN
  CASE sch.type = "string" -> IF value.t = "str" THEN good ELSE bad
    [] sch.type = "number" -> IF value.t = "num" THEN good ELSE bad
    [] sch.type = "boolean" -> IF value.t = "bool" THEN good ELSE bad
    [] sch.type = "any" -> good
    [] sch.type = "optional" ->
         IF value = Undefined THEN good ELSE zodRun(sch.innerType, value, path, proto)
    [] sch.type = "union" -> zodOptions(sch.options, 1, value, path, proto)
    [] sch.type = "array" ->
         IF value.t # "arr" THEN bad
         ELSE LET r == zodItems(sch.element, 1, value.a, path, proto,
                                [value |-> <<>>, issues |-> <<>>])
              IN [value |-> Arr(r.value), issues |-> r.issues]
    [] sch.type = "object" ->
         IF value.t # "obj" THEN bad
         ELSE LET r == zodFields(sch.shape, 1, value.o, path, proto,
                                 [value |-> <<>>, issues |-> <<>>])
              IN [value |-> Obj(r.value), issues |-> r.issues]

safeParseResult(r) ==
  IF Len(r.issues) = 0 THEN [success |-> TRUE, data |-> r.value, issues |-> <<>>]
  ELSE [success |-> FALSE, data |-> Undefined, issues |-> r.issues]

safeParse(sch, value, proto) == safeParseResult(zodRun(sch, value, <<>>, proto))

---------------------------------------------------------------------------
(* The entry grouper and validator (validateAdvancedArgs).                 *)

\* the keys of the entries in order of first occurrence: Object.entries of
\* groupedArgs
RECURSIVE groupKeys(_, _)
groupKeys(entries, seen) ==
  IF Len(entries) = 0 THEN seen
  ELSE IF \E i \in 1..Len(seen) : seen[i] = entries[1].key
       THEN groupKeys(Tail(entries), seen)
       ELSE groupKeys(Tail(entries), Append(seen, entries[1].key))

\* groupedArgs[key]: the entries of one key, in encounter order
RECURSIVE keyArgs(_, _)
keyArgs(entries, key) ==
  IF Len(entries) = 0 THEN <<>>
  ELSE IF entries[1].key = key THEN <<entries[1]>> \o keyArgs(Tail(entries), key)
  ELSE keyArgs(Tail(entries), key)

\* A variant of resolveKey that never builds an array; C3's formula tells
\* it from resolveKey.
resolveKeyLast(group, sch, key) == group[Len(group)].value

\* A variant of resolveKey in which the first occurrence of a key that is
\* not array-typed wins; C4's formula tells it from resolveKey.
resolveKeyFirst(group, sch, key) ==
  IF Len(group) = 1 THEN group[1].value
  ELSE IF isArraySchemaAtPath(sch, key)
  THEN Arr([i \in 1..Len(group) |-> group[i].value])
  ELSE group[1].value

\* the value validateAdvancedArgs stores for one key
resolveKey(group, sch, key) ==
  IF Len(group) = 1 THEN group[1].value
  ELSE IF isArraySchemaAtPath(sch, key)
  THEN Arr([i \in 1..Len(group) |-> group[i].value])
  ELSE group[Len(group)].value

\* groupedArgs[arg.key] is read through the prototype chain: for a key
\* that names an inherited member (or a truthy property written to
\* Object.prototype) the value found is no array, and calling its push
\* throws a TypeError
groupingThrows(entries, proto) ==
  \E i \in 1..Len(entries) :
    \/ entries[i].key \in ProtoMembers
    \/ entries[i].key \in DOMAIN proto /\ truthy(proto[entries[i].key])

\* the object validateAdvancedArgs assembles: one own property per key
assemble(entries, sch) ==
  LET keys == groupKeys(entries, <<>>) IN
  [k \in {keys[i] : i \in 1..Len(keys)} |-> resolveKey(keyArgs(entries, k), sch, k)]

\* the last statement of validateAdvancedArgs
validated(sch, obj, proto) ==
  [threw |-> FALSE, parsedObject |-> obj, outcome |-> safeParse(sch, obj, proto)]

\* validateAdvancedArgs(args, schema)
validateAdvancedArgs(entries, sch, proto) ==
  IF groupingThrows(entries, proto)
  THEN [threw |-> TRUE, parsedObject |-> EmptyObj,
        outcome |-> [success |-> FALSE, data |-> Undefined, issues |-> <<>>]]
  ELSE validated(sch, Obj(assemble(entries, sch)), proto)

---------------------------------------------------------------------------
(* The basic option parser (parse-options), which execute uses for a       *)
(* command that declares no schema.                                        *)

\* an inherited member of Object.prototype, as a value (a function, or
\* Object.prototype itself for __proto__): truthy and no array
Builtin(k) == [t |-> "builtin", k |-> k]

\* parsePrimitiveValue of parse-options: as above, and a bracketed text
\* that is valid JSON is parsed
parsePrimitiveValueOpt(value) ==
  LET looksJson == \/ startsWith(value, <<"{">>) /\ endsWith(value, <<"}">>)
                   \/ startsWith(value, <<"[">>) /\ endsWith(value, <<"]">>)
  IN
  IF value = <<"t","r","u","e">> THEN Bool(TRUE)
  ELSE IF value = <<"f","a","l","s","e">> THEN Bool(FALSE)
  ELSE IF value = <<"n","u","l","l">> THEN Null
  ELSE IF value = <<"u","n","d","e","f","i","n","e","d">> THEN Undefined
  ELSE IF ~NumberOf(value).nan THEN Num(NumberOf(value).n)
  ELSE IF looksJson /\ jsonParse(value).ok THEN jsonParse(value).v
  ELSE Str(value)

\* setNestedValue of parse-options: a string is stored coerced, any other
\* value as it is
setNestedValueOpt(heap, path, v) ==
  assignAtPath(heap, path, IF v.t = "str" THEN parsePrimitiveValueOpt(v.s) ELSE v)

\* parseObjectValue's loop in parse-options (the same loop as above)
RECURSIVE objectLoopOpt(_, _, _)
objectLoopOpt(parts, i, st) ==
  IF i > Len(parts) THEN st
  ELSE
    LET part == trim(parts[i])
        equalIndex == indexOf(part, "=")
        keyPath == trim(SubSeq(part, 1, equalIndex - 1))
        val0 == trim(SubSeq(part, equalIndex + 1, Len(part)))
        j == skipPlain(parts, i + 1)
        val == IF j > i + 1 THEN val0 \o <<",">> \o join(SubSeq(parts, i + 1, j - 1), ",")
               ELSE val0
    IN
    IF equalIndex # 0 /\ Len(keyPath) > 0 THEN
      objectLoopOpt(parts, j,
                    [heap |-> setNestedValueOpt(st.heap, keyPath, Str(val)), has |-> TRUE])
    ELSE objectLoopOpt(parts, i + 1, st)

\* parseObjectValue of parse-options: the object of the pairs, or the
\* string itself where no pair was found
parseObjectValueOpt(value, proto) ==
  LET st == objectLoopOpt(split(value, ","), 1,
                          [heap |-> [obj |-> <<>>, proto |-> proto, threw |-> FALSE],
                           has |-> FALSE])
  IN [value |-> IF st.has /\ DOMAIN st.heap.obj # {} THEN Obj(st.heap.obj) ELSE Str(value),
      proto |-> st.heap.proto,
      threw |-> st.heap.threw]

\* parseValue(value)
parseValue(value, proto) ==
  IF Len(value) = 0 THEN [value |-> Bool(TRUE), proto |-> proto, threw |-> FALSE]
  ELSE IF ~includes(value, "=") THEN [value |-> Str(value), proto |-> proto, threw |-> FALSE]
  ELSE parseObjectValueOpt(value, proto)

\* arg.replace('--', ''): the first occurrence of two hyphens, wherever it
\* is, removed
RECURSIVE removeFirstDD(_)
removeFirstDD(arg) ==
  IF Len(arg) < 2 THEN arg
  ELSE IF arg[1] = "-" /\ arg[2] = "-" THEN SubSeq(arg, 3, Len(arg))
  ELSE <<arg[1]>> \o removeFirstDD(Tail(arg))

\* the hyphen stripping of parseOptions' main loop: replace('--', ''), and
\* replace('-', '') if a hyphen still leads
cleanOptionArg(arg) ==
  LET a == removeFirstDD(arg) IN
  IF startsWith(a, <<"-">>) THEN Tail(a) ELSE a

\* countOptionOccurrences(input)[key]: the number of flag tokens with a
\* value whose key, after arg.replace(/^--?/, ''), is key
RECURSIVE countOptionOccurrences(_, _)
countOptionOccurrences(tokens, key) ==
  IF Len(tokens) = 0 THEN 0
  ELSE
    LET clean == stripDashes(tokens[1])
        equalIndex == indexOf(clean, "=")
        hit == /\ startsWith(tokens[1], <<"-">>)
               /\ equalIndex # 0
               /\ SubSeq(clean, 1, equalIndex - 1) = key
    IN (IF hit THEN 1 ELSE 0) + countOptionOccurrences(Tail(tokens), key)

\* occurrences[key] === 1.  For a key that names an inherited member the
\* count starts from that member (counts[key] ?? 0) and is no number.
occursOnce(tokens, key, proto) ==
  /\ key \notin ProtoMembers
  /\ key \notin DOMAIN proto
  /\ countOptionOccurrences(tokens, key) = 1

\* isArraySchemaAtPath of parse-options: the node at the path is an array
isArraySchemaAtPathOpt(sch, path) ==
  LET w == schemaWalk(sch, split(path, "."), 1) IN
  w.found /\ w.node.type = "array"

\* result[key], read through the prototype chain
readProp(heap, key) ==
  IF key \in DOMAIN heap.obj THEN heap.obj[key]
  ELSE IF key \in DOMAIN heap.proto THEN heap.proto[key]
  ELSE IF key \in ProtoMembers THEN Builtin(key)
  ELSE Undefined

\* result[key] = v (an assignment to __proto__ sets no own property)
assignOwn(heap, key, v) ==
  IF key = S_proto THEN heap ELSE [heap EXCEPT !.obj = setProp(heap.obj, key, v)]

\* parsePrimitiveValue mapped over the pieces
primitivePieces(parts) == [i \in 1..Len(parts) |-> parsePrimitiveValueOpt(parts[i])]

\* the collection of multiples under a plain key: old is result[key]
collect(heap, key, old, v) ==
  IF truthy(old) THEN
    IF old.t = "arr" THEN assignOwn(heap, key, [old EXCEPT !.a = Append(@, v)])
    ELSE assignOwn(heap, key, Arr(<<old, v>>))
  ELSE assignOwn(heap, key, v)

\* the rest of an iteration for a flag with a value, pv being parseValue's
\* answer and h the heap after it
storeOption(tokens, sch, h, key, pv, proto0) ==
  IF pv.threw THEN h
  ELSE IF /\ isArraySchemaAtPathOpt(sch, key)
          /\ occursOnce(tokens, key, proto0)
          /\ pv.value.t = "str"
          /\ includes(pv.value.s, ",")
  THEN IF includes(key, ".")
       THEN setNestedValueOpt(h, key,
                              Arr(primitivePieces(trimmedNonEmpty(split(pv.value.s, ",")))))
       ELSE assignOwn(h, key, Arr(primitivePieces(trimmedNonEmpty(split(pv.value.s, ",")))))
  ELSE IF includes(key, ".") THEN setNestedValueOpt(h, key, pv.value)
  ELSE collect(h, key, readProp(h, key), pv.value)

withValue(tokens, sch, heap, key, pv, proto0) ==
  storeOption(tokens, sch, [heap EXCEPT !.proto = pv.proto, !.threw = pv.threw],
              key, pv, proto0)

\* one iteration of parseOptions' main loop, for a flag token: arg is the
\* token without its hyphens, firstEqualIndex the position of its first
\* '=' (0 if it has none), proto0 Object.prototype when parseOptions began
optionStep(tokens, sch, heap, arg, firstEqualIndex, proto0) ==
  IF firstEqualIndex = 0 THEN setNestedValueOpt(heap, arg, Bool(TRUE))
  ELSE withValue(tokens, sch, heap, SubSeq(arg, 1, firstEqualIndex - 1),
                 parseValue(SubSeq(arg, firstEqualIndex + 1, Len(arg)), heap.proto),
                 proto0)

RECURSIVE optionLoop(_, _, _, _, _)
optionLoop(tokens, i, sch, heap, proto0) ==
  IF i > Len(tokens) \/ heap.threw THEN heap
  ELSE IF startsWith(tokens[i], <<"-">>)
  THEN optionLoop(tokens, i + 1, sch,
                  optionStep(tokens, sch, heap, cleanOptionArg(tokens[i]),
                             indexOf(cleanOptionArg(tokens[i]), "="), proto0),
                  proto0)
  ELSE optionLoop(tokens, i + 1, sch, heap, proto0)

\* return schema.safeParse(result)
parsedOptions(sch, heap) ==
  [threw |-> heap.threw,
   proto |-> heap.proto,
   parsedObject |-> Obj(heap.obj),
   outcome |-> IF heap.threw THEN [success |-> FALSE, data |-> Undefined, issues |-> <<>>]
               ELSE safeParse(sch, Obj(heap.obj), heap.proto)]

\* parseOptions(input, schema)
parseOptions(tokens, sch, proto) ==
  parsedOptions(sch, optionLoop(tokens, 1, sch,
                                [obj |-> <<>>, proto |-> proto, threw |-> FALSE], proto))

---------------------------------------------------------------------------
(* The inputs the model draws from.                                        *)

DD == <<"-", "-">>
K_a == <<"a">>
K_b == <<"b">>
K_c == <<"c">>
K_n == <<"n">>
K_v == <<"v">>
K_ab == <<"a", ".", "b">>
K_ac == <<"a", ".", "c">>
K_tags == <<"t", "a", "g", "s">>
K_name == <<"n", "a", "m", "e">>
K_to == <<"t", "o">>
W_x == <<"x">>
W_y == <<"y">>
W_yz == <<"y", ",", "z">>
W_root == <<"r", "o", "o", "t">>
W_Root == <<"R", "o", "o", "t">>
W_child == <<"c", "h", "i", "l", "d">>
W_help == <<"h", "e", "l", "p">>
W_ping == <<"p", "i", "n", "g">>
W_pong == <<"p", "o", "n", "g">>

\* --key=value
Flag(key, value) == DD \o key \o <<"=">> \o value

\* the flag tokens given to the scan-and-validate pipeline
FlagTokens ==
  { Flag(K_ab, <<"1">>),                        \* --a.b=1
    Flag(K_ac, <<"2">>),                        \* --a.c=2
    Flag(K_a, <<"b", "=", "1", ",", "c", "=", "2">>),  \* --a=b=1,c=2
    Flag(K_tags, W_x),                          \* --tags=x
    Flag(K_tags, W_yz),                         \* --tags=y,z
    Flag(K_name, W_x),                          \* --name=x
    Flag(K_name, W_yz),                         \* --name=y,z
    Flag(K_to, W_x),                            \* --to=x
    Flag(K_to, W_y),                            \* --to=y
    <<"-">> \o K_v,                             \* -v
    Flag(<<"c","o","n","s","t","r","u","c","t","o","r">>, W_x) }  \* --constructor=x

\* the schemas given to the scan-and-validate pipeline
NestedSchema ==
  ZObject(<<Field(K_a, ZObject(<<Field(K_b, ZNumber), Field(K_c, ZNumber)>>))>>)
TagsSchema ==
  ZObject(<<Field(K_tags, ZArray(ZString)), Field(K_name, ZOptional(ZString))>>)
EmailSchema ==
  ZObject(<<Field(K_to, ZUnion(<<ZString, ZArray(ZString)>>)),
            Field(K_name, ZOptional(ZString))>>)
OptionalTagsSchema == ZObject(<<Field(K_tags, ZOptional(ZArray(ZString)))>>)
Schemas == {NestedSchema, TagsSchema, EmailSchema, OptionalTagsSchema}

\* all sequences over S of length at most n
RECURSIVE SeqsUpTo(_, _)
SeqsUpTo(S, n) ==
  IF n = 0 THEN {<<>>}
  ELSE LET shorter == SeqsUpTo(S, n - 1) IN
       shorter \cup {Append(q, x) : q \in shorter, x \in S}

NoCommand == [class |-> "none"]
NoOptions == [success |-> FALSE, data |-> Undefined, issues |-> <<>>]
NoResult == [kind |-> "none"]

---------------------------------------------------------------------------
(* Commands.  A command class has a name, an ordered list of child         *)
(* classes and, optionally, an options schema; the registry is the list    *)
(* of classes registered with the container, and resolveAll yields one     *)
(* instance of each, in order.                                             *)

NoOpts == [type |-> "none"]

\* opts of the command classes
RootOpts ==
  ZObject(<<Field(K_n, ZNumber),
            Field(K_a, ZOptional(ZObject(<<Field(K_b, ZNumber)>>)))>>)
HelpOpts == ZArray(ZString)

\* the command classes of the program
Classes == {"RootCommand", "ChildCommand", "HelpCommand"}

\* with them, a further class an application may register: a command of
\* its own that no command lists as a child and that is named as
\* ChildCommand is
HelpClasses == Classes \cup {"OtherChildCommand"}

\* and two classes whose child lists form a cycle: each lists the other
CyclicClasses == {"PingCommand", "PongCommand"}

classDef(id) ==
  CASE id = "RootCommand" ->
         [name |-> W_root, children |-> <<"ChildCommand">>, opts |-> RootOpts]
    [] id = "ChildCommand" ->
         [name |-> W_child, children |-> <<>>, opts |-> NoOpts]
    [] id = "HelpCommand" ->
         [name |-> W_help, children |-> <<>>, opts |-> HelpOpts]
    [] id = "OtherChildCommand" ->
         [name |-> W_child, children |-> <<>>, opts |-> NoOpts]
    [] id = "PingCommand" ->
         [name |-> W_ping, children |-> <<"PongCommand">>, opts |-> NoOpts]
    [] id = "PongCommand" ->
         [name |-> W_pong, children |-> <<"PingCommand">>, opts |-> NoOpts]

\* the registrations the model draws from
Registries ==
  { <<>>,
    <<"RootCommand", "ChildCommand">>,
    <<"RootCommand", "ChildCommand", "HelpCommand">> }

\* the tokens given to execute
ExecTokens ==
  { W_root, W_child, W_help, W_x, W_Root,
    Flag(K_n, <<"1">>),       \* --n=1
    Flag(K_n, W_x),           \* --n=x
    Flag(K_a, <<"b", "=", "x">>) }   \* --a=b=x

\* highest exit code a command handler returns
MaxExitCode == 2

\* A variant of parseArgs that skips a flag token and goes on; C17's
\* formula tells it from parseArgs.
RECURSIVE parseArgsAll(_)
parseArgsAll(tokens) ==
  IF Len(tokens) = 0 THEN <<>>
  ELSE IF startsWith(tokens[1], <<"-">>) THEN parseArgsAll(Tail(tokens))
  ELSE <<tokens[1]>> \o parseArgsAll(Tail(tokens))

\* parseArgs(input): the leading tokens that do not start with a hyphen
RECURSIVE parseArgs(_)
parseArgs(tokens) ==
  IF Len(tokens) = 0 \/ startsWith(tokens[1], <<"-">>) THEN <<>>
  ELSE <<tokens[1]>> \o parseArgs(Tail(tokens))

\* Array.prototype.find over class lists by name: the index of the first
\* class whose instance has the name, 0 if there is none
findByName(classes, name) ==
  IF \E i \in 1..Len(classes) : classDef(classes[i]).name = name
  THEN CHOOSE i \in 1..Len(classes) :
         /\ classDef(classes[i]).name = name
         /\ \A j \in 1..(i - 1) : classDef(classes[j]).name # name
  ELSE 0

Resolved(id) == [kind |-> "ok", class |-> id]
Thrown(error) == [kind |-> "throw", error |-> error]

\* A variant of findNestedCommand that stops at the command it is given;
\* C6's formula tells it from findNestedCommand.
findNestedCommandStay(currentCommand, remainingArgs) == Resolved(currentCommand)

\* A variant of findNestedCommand that answers the deepest command matched
\* when a token matches no child; C7's formula tells it from
\* findNestedCommand.
RECURSIVE findNestedCommandDeepest(_, _)
findNestedCommandDeepest(currentCommand, remainingArgs) ==
  IF Len(remainingArgs) = 0 THEN Resolved(currentCommand)
  ELSE IF findByName(classDef(currentCommand).children, remainingArgs[1]) = 0
  THEN Resolved(currentCommand)
  ELSE findNestedCommandDeepest(
         classDef(currentCommand).children[
           findByName(classDef(currentCommand).children, remainingArgs[1])],
         Tail(remainingArgs))

\* findNestedCommand(currentCommand, remainingArgs)
RECURSIVE findNestedCommand(_, _)
findNestedCommand(currentCommand, remainingArgs) ==
  IF Len(remainingArgs) = 0 THEN Resolved(currentCommand)
  ELSE
    LET children == classDef(currentCommand).children
        i == findByName(children, remainingArgs[1])
    IN
    IF i = 0 THEN Thrown("CommandNotFoundError")
    ELSE findNestedCommand(children[i], Tail(remainingArgs))

\* A variant of resolveCommand that takes an empty sequence for the root
\* command; C8's formula tells it from resolveCommand.
resolveCommandDefault(positional, commands) ==
  IF Len(positional) = 0 THEN Resolved("RootCommand")
  ELSE IF findByName(commands, positional[1]) = 0 THEN Thrown("CommandNotFoundError")
  ELSE IF Len(positional) = 1 THEN Resolved(commands[findByName(commands, positional[1])])
  ELSE findNestedCommand(commands[findByName(commands, positional[1])], Tail(positional))

\* resolveCommand(args), with commands = container.resolveAll(ICommand)
resolveCommand(positional, commands) ==
  IF Len(positional) = 0 THEN Thrown("NoCommandSpecifiedError")
  ELSE
    LET i == findByName(commands, positional[1]) IN
    IF i = 0 THEN Thrown("CommandNotFoundError")
    ELSE IF Len(positional) = 1 THEN Resolved(commands[i])
    ELSE findNestedCommand(commands[i], Tail(positional))

\* this.commands.find(c => c instanceof child)?.name
childName(commands, child) ==
  IF \E i \in 1..Len(commands) : commands[i] = child
  THEN Str(classDef(child).name) ELSE Undefined

\* the names of the children of all commands that are registered
\* themselves: what HelpCommand.handler filters out of the root listing
filteredNames(commands) ==
  (UNION { { childName(commands, classDef(commands[i]).children[j]) :
               j \in 1..Len(classDef(commands[i]).children) } :
           i \in 1..Len(commands) })
    \cap { Str(classDef(commands[i]).name) : i \in 1..Len(commands) }

\* the commands whose name was not filtered out, in order
RECURSIVE keepUnfiltered(_, _)
keepUnfiltered(commands, names) ==
  IF Len(commands) = 0 THEN <<>>
  ELSE IF Str(classDef(commands[1]).name) \in names
  THEN keepUnfiltered(Tail(commands), names)
  ELSE <<commands[1]>> \o keepUnfiltered(Tail(commands), names)

\* rootCommands of HelpCommand.handler
rootCommands(commands) == keepUnfiltered(commands, filteredNames(commands))

namesOf(classes) == [i \in 1..Len(classes) |-> classDef(classes[i]).name]

\* the help of one command: the usage line, the children that are
\* registered, and the options of an object schema; the handler then
\* returns nothing
commandHelp(opts, commands, def) ==
  [lines |-> <<[line |-> "usage", path |-> opts]>>
             \o (IF Len(def.children) > 0
                 THEN <<[line |-> "available-commands",
                         commands |-> [i \in 1..Len(def.children) |->
                                         childName(commands, def.children[i])]]>>
                 ELSE <<>>)
             \o (IF def.opts.type = "object"
                 THEN <<[line |-> "options",
                         keys |-> [i \in 1..Len(def.opts.shape) |-> def.opts.shape[i].key]]>>
                 ELSE <<>>),
   end |-> [kind |-> "return", value |-> Undefined]]

\* the handler after the trailing "help" was dropped: r is what
\* resolveCommand(opts) gives, and is looked at only if opts is not empty
helpFor(opts, commands, r) ==
  IF Len(opts) = 0 THEN
    [lines |-> <<[line |-> "general-help", commands |-> namesOf(rootCommands(commands))]>>,
     end |-> [kind |-> "return", value |-> Num(0)]]
  ELSE IF r.kind = "throw" THEN [lines |-> <<>>, end |-> r]
  ELSE commandHelp(opts, commands, classDef(r.class))

\* opts of HelpCommand.handler: the input without a trailing "help"
helpOpts(inp) ==
  IF Len(inp) > 0 /\ inp[Len(inp)] = W_help THEN SubSeq(inp, 1, Len(inp) - 1) ELSE inp

\* HelpCommand.handler(input) with this.commands = commands: what it
\* prints, and how it ends (it returns 0 after the general help, returns
\* nothing after a command's help, and throws what resolveCommand throws)
helpHandler(inp, commands) ==
  helpFor(helpOpts(inp), commands, resolveCommand(helpOpts(inp), commands))

\* A variant of orZero that turns a missing code into 1; C10's formula
\* tells it from orZero.
orZeroOne(v) == IF truthy(v) THEN v.n ELSE 1

\* exitCode || 0
orZero(v) == IF truthy(v) THEN v.n ELSE 0

Returned(code) == [kind |-> "return", code |-> code]

---------------------------------------------------------------------------
(* execute(input), stage by stage.                                         *)

Init ==
  /\ input \in SeqsUpTo(ExecTokens, MaxTokens)
  /\ registry \in Registries
  /\ schema = NoOpts
  /\ pc = "start"
  /\ args = <<>>
  /\ command = NoCommand
  /\ caught = "none"
  /\ exitCode = NoResult
  /\ parsedArgs = <<>>
  /\ parsedObject = EmptyObj
  /\ options = NoOptions
  /\ result = NoResult
  /\ handlerCalls = 0
  /\ helpCalls = 0
  /\ log = <<>>
  /\ protoProps = <<>>
  /\ remaining = <<>>
  /\ steps = 0

\* 1. parse args
ParseArgs ==
  /\ pc = "start"
  /\ args' = parseArgs(input)
  /\ pc' = "resolve"
  /\ UNCHANGED <<input, registry, schema, command, caught, exitCode, parsedArgs,
                 parsedObject, options, result, handlerCalls, helpCalls, log,
                 protoProps, remaining, steps>>

\* 2. find command; the catch clause prints the unknown-command message
\* unless the last positional token is "help" in any letter case
resolved(r) ==
  /\ command' = IF r.kind = "ok" THEN [class |-> r.class] ELSE NoCommand
  /\ caught' = IF r.kind = "ok" THEN "none" ELSE r.error
  /\ schema' = IF r.kind = "ok" THEN classDef(r.class).opts ELSE schema
  /\ pc' = IF r.kind = "ok" THEN "options" ELSE "help"
  /\ log' = IF /\ r.kind = "throw"
               /\ r.error = "CommandNotFoundError"
               /\ toLowerCase(args[Len(args)]) # W_help
             THEN Append(log, [line |-> "unknown-command", path |-> args])
             ELSE log

Resolve ==
  /\ pc = "resolve"
  /\ resolved(resolveCommand(args, registry))
  /\ UNCHANGED <<input, registry, args, exitCode, parsedArgs, parsedObject, options,
                 result, handlerCalls, helpCalls, protoProps, remaining, steps>>

\* the catch clause: a HelpCommand is built over all registered commands
\* and its handler is awaited with the positional tokens
helpEnds(h) ==
  /\ log' = log \o h.lines
  /\ result' = IF h.end.kind = "throw" THEN h.end ELSE Returned(orZero(h.end.value))

FallbackHelp ==
  /\ pc = "help"
  /\ helpEnds(helpHandler(args, registry))
  /\ helpCalls' = helpCalls + 1
  /\ pc' = "done"
  /\ UNCHANGED <<input, registry, schema, args, command, caught, exitCode, parsedArgs,
                 parsedObject, options, handlerCalls, protoProps,
                 remaining, steps>>

\* step 3 for a command with a schema, p being parseAdvancedArgs' answer
\* and v validateAdvancedArgs'
advancedOptions(p, v) ==
  [threw |-> p.threw \/ v.threw, proto |-> p.proto, entries |-> p.entries,
   parsedObject |-> v.parsedObject, outcome |-> v.outcome]

validateParsed(p, sch) ==
  advancedOptions(p, validateAdvancedArgs(p.entries, sch, p.proto))

\* step 3 for a command without a schema, o being parseOptions' answer
basicOptions(o) ==
  [threw |-> o.threw, proto |-> o.proto, entries |-> <<>>,
   parsedObject |-> o.parsedObject, outcome |-> o.outcome]

\* the outcome of step 3: parseAdvancedArgs and validateAdvancedArgs for a
\* command with a schema, parseOptions with z.any() for one without
stepOptions(tokens, sch, proto) ==
  IF sch.type # "none" THEN validateParsed(parseAdvancedArgs(tokens, proto), sch)
  ELSE basicOptions(parseOptions(tokens, ZAny, proto))

\* A variant of issuePaths that reports the first issue only; C21's
\* formula tells it from issuePaths.
issuePathsFirst(issues) ==
  IF Len(issues) = 0 THEN <<>> ELSE <<join(issues[1].path, ".")>>

\* i.path.join('.') for every issue
issuePaths(issues) == [i \in 1..Len(issues) |-> join(issues[i].path, ".")]

\* A variant of optionsEnd that goes on to the handler whatever the
\* validation outcome; C9's formula tells it from optionsEnd.
optionsEndDispatch(r) ==
  /\ parsedArgs' = r.entries
  /\ parsedObject' = r.parsedObject
  /\ options' = r.outcome
  /\ protoProps' = r.proto
  /\ result' = result
  /\ pc' = "dispatch"
  /\ log' = log

\* A variant of optionsEnd that reports invalid options and then goes on
\* to the handler; C25's formula tells it from optionsEnd.
optionsEndNoReturn(r) ==
  /\ parsedArgs' = r.entries
  /\ parsedObject' = r.parsedObject
  /\ options' = r.outcome
  /\ protoProps' = r.proto
  /\ result' = IF r.threw THEN Thrown("TypeError") ELSE result
  /\ pc' = IF r.threw THEN "done" ELSE "dispatch"
  /\ log' = IF r.threw \/ r.outcome.success THEN log
            ELSE log \o <<[line |-> "invalid-options",
                            command |-> classDef(command.class).name],
                           [line |-> "issues", paths |-> issuePaths(r.outcome.issues)]>>

\* the end of step 3: a TypeError leaves execute, invalid options are
\* reported and end the run with 1, valid options go on to the handler
optionsEnd(r) ==
  /\ parsedArgs' = r.entries
  /\ parsedObject' = r.parsedObject
  /\ options' = r.outcome
  /\ protoProps' = r.proto
  /\ IF r.threw THEN
       /\ result' = Thrown("TypeError")
       /\ pc' = "done"
       /\ log' = log
     ELSE IF ~r.outcome.success THEN
       /\ result' = Returned(1)
       /\ pc' = "done"
       /\ log' = log \o <<[line |-> "invalid-options",
                           command |-> classDef(command.class).name],
                          [line |-> "issues", paths |-> issuePaths(r.outcome.issues)]>>
     ELSE
       /\ result' = result
       /\ pc' = "dispatch"
       /\ log' = log

\* 3. parse options
Options ==
  /\ pc = "options"
  /\ optionsEnd(stepOptions(input, schema, protoProps))
  /\ UNCHANGED <<input, registry, schema, args, command, caught, exitCode,
                 handlerCalls, helpCalls, remaining, steps>>

\* what a command handler may do: return nothing, return a code, or throw
HandlerEnds ==
  {[kind |-> "return", value |-> Undefined]}
    \cup {[kind |-> "return", value |-> Num(n)] : n \in 0..MaxExitCode}
    \cup {Thrown("HandlerError")}

\* 4. execute command
Dispatch ==
  /\ pc = "dispatch"
  /\ handlerCalls' = handlerCalls + 1
  /\ \E h \in HandlerEnds :
       /\ exitCode' = h
       /\ result' = IF h.kind = "throw" THEN h ELSE Returned(orZero(h.value))
  /\ pc' = "done"
  /\ UNCHANGED <<input, registry, schema, args, command, caught, parsedArgs,
                 parsedObject, options, helpCalls, log, protoProps,
                 remaining, steps>>

Next == ParseArgs \/ Resolve \/ FallbackHelp \/ Options \/ Dispatch

Spec == Init /\ [][Next]_vars

---------------------------------------------------------------------------
(* The scan-and-validate pipeline on its own: parseAdvancedArgs followed   *)
(* by validateAdvancedArgs, for every flag vector and schema of the        *)
(* bounds.                                                                 *)

InitValidate ==
  /\ input \in SeqsUpTo(FlagTokens, MaxFlags)
  /\ schema \in Schemas
  /\ registry = <<>>
  /\ pc = "scan"
  /\ args = <<>>
  /\ command = NoCommand
  /\ caught = "none"
  /\ exitCode = NoResult
  /\ parsedArgs = <<>>
  /\ parsedObject = EmptyObj
  /\ options = NoOptions
  /\ result = NoResult
  /\ handlerCalls = 0
  /\ helpCalls = 0
  /\ log = <<>>
  /\ protoProps = <<>>
  /\ remaining = <<>>
  /\ steps = 0

\* parseAdvancedArgs(input)
scanned(r) ==
  /\ parsedArgs' = r.entries
  /\ protoProps' = r.proto
  /\ pc' = IF r.threw THEN "threw" ELSE "validate"

ScanFlags ==
  /\ pc = "scan"
  /\ scanned(parseAdvancedArgs(input, protoProps))
  /\ UNCHANGED <<input, registry, schema, args, command, caught, exitCode,
                 parsedObject, options, result, handlerCalls, helpCalls, log,
                 remaining, steps>>

\* validateAdvancedArgs(parsedArgs, schema)
validatedEnd(r) ==
  /\ parsedObject' = r.parsedObject
  /\ options' = r.outcome
  /\ pc' = IF r.threw THEN "threw" ELSE "validated"

Validate ==
  /\ pc = "validate"
  /\ validatedEnd(validateAdvancedArgs(parsedArgs, schema, protoProps))
  /\ UNCHANGED <<input, registry, schema, args, command, caught, exitCode,
                 parsedArgs, result, handlerCalls, helpCalls, log, protoProps,
                 remaining, steps>>

NextValidate == ScanFlags \/ Validate

SpecValidate == InitValidate /\ [][NextValidate]_vars

---------------------------------------------------------------------------
(* Properties of the scan-and-validate pipeline (SpecValidate).            *)

\* the keys of the parsed entries
suppliedKeys == {parsedArgs[i].key : i \in 1..Len(parsedArgs)}

\* the positions of the entries of key k, and the j-th and the last of them
occurrencesOf(k) == {i \in 1..Len(parsedArgs) : parsedArgs[i].key = k}
nthOccurrence(k, j) ==
  CHOOSE i \in occurrencesOf(k) : Cardinality({m \in occurrencesOf(k) : m < i}) = j - 1
lastOccurrence(k) == CHOOSE i \in occurrencesOf(k) : \A m \in occurrencesOf(k) : m <= i

\* the text after the first '=' of the token of entry i (empty if none)
rawValue(i) ==
  LET t == stripDashes(parsedArgs[i].original)
      e == indexOf(t, "=")
  IN IF e = 0 THEN <<>> ELSE SubSeq(t, e + 1, Len(t))

\* a raw value that is a comma list: commas, no '=', no JSON brackets, and
\* at least two non-empty pieces
isCommaText(raw) ==
  /\ includes(raw, ",")
  /\ ~includes(raw, "=")
  /\ ~startsWith(raw, <<"[">>)
  /\ ~startsWith(raw, <<"{">>)
  /\ Len(trimmedNonEmpty(split(raw, ","))) > 1

\* the array a comma list stands for: numbers if every piece is numeric,
\* the pieces as strings otherwise
piecesArray(pieces) ==
  IF \A j \in 1..Len(pieces) : ~NumberOf(pieces[j]).nan
  THEN Arr([j \in 1..Len(pieces) |-> Num(NumberOf(pieces[j]).n)])
  ELSE Arr([j \in 1..Len(pieces) |-> Str(pieces[j])])

\* C1 (as claimed): validation assembles dotted keys into a nested object:
\* no key of the object handed to the schema contains a dot, and
\* --a.b=1 --a.c=2 against a{b:number,c:number} succeeds with
\* {a:{b:1,c:2}}.
C1_DotPathAssembly ==
  pc = "validated" =>
    /\ \A k \in DOMAIN parsedObject.o : ~includes(k, ".")
    /\ (input = <<Flag(K_ab, <<"1">>), Flag(K_ac, <<"2">>)>> /\ schema = NestedSchema) =>
         /\ options.success
         /\ options.data = Obj((K_a :> Obj((K_b :> Num(1)) @@ (K_c :> Num(2)))))

\* C1: the case is reached: --a.b=1 --a.c=2 was validated against
\* a{b:number,c:number}, and validation failed on the flat keys.
C1_Witness ==
  /\ pc = "validated"
  /\ input = <<Flag(K_ab, <<"1">>), Flag(K_ac, <<"2">>)>>
  /\ schema = NestedSchema
  /\ parsedObject = Obj((K_ab :> Num(1)) @@ (K_ac :> Num(2)))
  /\ ~options.success

C4_LastFlagWins ==
  pc = "validated" =>
    \A k \in suppliedKeys :
      (~isArraySchemaAtPath(schema, k) /\ Cardinality(occurrencesOf(k)) > 1) =>
        /\ k \in DOMAIN parsedObject.o
        /\ parsedObject.o[k] = parsedArgs[lastOccurrence(k)].value

\* C4: the case is reached: --to=x --name=y,z --name=x, name not
\* array-typed, was validated with name = "x" and without an issue.
C4_Witness ==
  /\ pc = "validated"
  /\ input = <<Flag(K_to, W_x), Flag(K_name, W_yz), Flag(K_name, W_x)>>
  /\ schema = EmailSchema
  /\ ~isArraySchemaAtPath(schema, K_name)
  /\ parsedObject.o[K_name] = Str(W_x)
  /\ options.success

---------------------------------------------------------------------------
(* Properties of execute (Spec).                                           *)

\* resolveCommand has run
afterResolve == pc \notin {"start", "resolve"}

\* path names, token by token, a registered command matching the first
\* positional token and then at each level a child of the command before
\* it matching the next token, the names compared by exact equality
matches(path) ==
  /\ Len(args) > 0
  /\ Len(path) = Len(args)
  /\ \E i \in 1..Len(registry) : registry[i] = path[1]
  /\ \A j \in 1..Len(path) : classDef(path[j]).name = args[j]
  /\ \A j \in 2..Len(path) :
       \E c \in 1..Len(classDef(path[j - 1]).children) :
         classDef(path[j - 1]).children[c] = path[j]

matchingPaths == {path \in [1..Len(args) -> Classes] : matches(path)}

\* C5 (as claimed): execute never ends by throwing
\* NoCommandSpecifiedError or CommandNotFoundError, the fallback help
\* handler included: in those cases it returns an exit code.
C5_ResolveErrorsHandled ==
  pc = "done" =>
    /\ ~(result.kind = "throw"
         /\ result.error \in {"NoCommandSpecifiedError", "CommandNotFoundError"})
    /\ caught # "none" => result.kind = "return"

\* C5: the case is reached: resolveCommand threw CommandNotFoundError, the
\* fallback help handler ran, and execute ended.
C5_Witness ==
  /\ pc = "done"
  /\ caught = "CommandNotFoundError"
  /\ helpCalls = 1
  /\ Len(registry) > 0

\* C6: resolution success: when every token of a non-empty positional
\* sequence matches in turn (a registered command first, then a child at
\* each level, by exact, case-sensitive equality of names), resolveCommand
\* returns the command reached by the last token, and the name of the
\* command it returns equals the last token.
C6_ResolveSuccess ==
  afterResolve =>
    /\ \A path \in matchingPaths :
         /\ caught = "none"
         /\ command = [class |-> path[Len(path)]]
    /\ command # NoCommand => classDef(command.class).name = args[Len(args)]

\* C6: the case is reached: [root, child] resolved to the child command.
C6_Witness ==
  /\ afterResolve
  /\ args = <<W_root, W_child>>
  /\ command = [class |-> "ChildCommand"]

\* C7: resolution failure: when some token of a non-empty positional
\* sequence has no match at its level, resolveCommand throws
\* CommandNotFoundError and no command is resolved, not even the deepest
\* one matched.
C7_ResolveFailure ==
  (afterResolve /\ Len(args) > 0 /\ matchingPaths = {}) =>
    /\ caught = "CommandNotFoundError"
    /\ command = NoCommand

\* C7: the case is reached: [root, x], whose first token matches and whose
\* second does not, failed with CommandNotFoundError; so did [Root], which
\* differs from a registered name in letter case only.
C7_Witness ==
  /\ afterResolve
  /\ args \in {<<W_root, W_x>>, <<W_Root>>}
  /\ Len(registry) > 0
  /\ caught = "CommandNotFoundError"
  /\ command = NoCommand

\* C8: an empty positional sequence fails with NoCommandSpecifiedError
\* whatever is registered, and CommandNotFoundError is thrown only for a
\* non-empty sequence.
C8_NoCommandSpecified ==
  afterResolve =>
    /\ Len(args) = 0 => (caught = "NoCommandSpecifiedError" /\ command = NoCommand)
    /\ caught = "CommandNotFoundError" => Len(args) > 0

\* C8: the case is reached: with commands registered, an input without
\* positional tokens failed with NoCommandSpecifiedError.
C8_Witness ==
  /\ afterResolve
  /\ Len(args) = 0
  /\ Len(registry) > 0
  /\ caught = "NoCommandSpecifiedError"

\* C9: when a command is resolved and the validation of its options
\* fails, execute returns 1 and the handler of the command is not invoked;
\* the handler is invoked only with options that passed validation.
C9_InvalidOptionsExitOne ==
  /\ (pc = "done" /\ command # NoCommand /\ ~options.success
        /\ result # Thrown("TypeError")) =>
       (result = Returned(1) /\ handlerCalls = 0)
  /\ handlerCalls > 0 => options.success

\* C9: the case is reached: root --n=x, n being a number, ended with 1
\* and no handler call.
C9_Witness ==
  /\ pc = "done"
  /\ input = <<W_root, Flag(K_n, W_x)>>
  /\ command = [class |-> "RootCommand"]
  /\ ~options.success
  /\ result = Returned(1)
  /\ handlerCalls = 0

\* C10: when resolution and validation succeed and the handler returns,
\* execute returns the code the handler returned, and 0 if it returned
\* nothing.
C10_HandlerCodeReturned ==
  (pc = "done" /\ handlerCalls > 0 /\ exitCode.kind = "return") =>
    /\ command # NoCommand
    /\ options.success
    /\ result = Returned(IF exitCode.value = Undefined THEN 0 ELSE exitCode.value.n)

\* C10: the case is reached: a handler returned 2 and execute returned 2;
\* another returned nothing and execute returned 0.
C10_Witness ==
  /\ pc = "done"
  /\ handlerCalls = 1
  /\ \/ exitCode = [kind |-> "return", value |-> Num(2)] /\ result = Returned(2)
     \/ exitCode = [kind |-> "return", value |-> Undefined] /\ result = Returned(0)

---------------------------------------------------------------------------
(* The round trip of validated data through its flags (SpecValidate).      *)

\* the text of a primitive value
textOf(v) ==
  CASE v.t = "num" -> indexText(v.n)
    [] v.t = "str" -> v.s
    [] v.t = "bool" -> IF v.b THEN <<"t", "r", "u", "e">> ELSE <<"f", "a", "l", "s", "e">>
    [] v.t = "null" -> <<"n", "u", "l", "l">>
    [] OTHER -> <<"u", "n", "d", "e", "f", "i", "n", "e", "d">>

\* the elements of a finite set, one after the other
RECURSIVE seqOf(_)
seqOf(S) ==
  IF S = {} THEN <<>>
  ELSE LET x == CHOOSE y \in S : TRUE IN <<x>> \o seqOf(S \ {x})

\* the concatenation of the sequences of a sequence
RECURSIVE flatten(_)
flatten(ss) == IF Len(ss) = 0 THEN <<>> ELSE ss[1] \o flatten(Tail(ss))

\* the flags that stand for the value v of key k: one flag for a
\* primitive, one flag per element for an array and, for a nested object,
\* one dotted flag per field (nested = "dot", --k.f=v) or one flag in
\* comma-object syntax (nested = "comma", --k=f=v,g=w)
flagsOf(k, v, nested) ==
  CASE v.t = "arr" -> [i \in 1..Len(v.a) |-> Flag(k, textOf(v.a[i]))]
    [] v.t = "obj" /\ nested = "dot" ->
         LET fs == seqOf(DOMAIN v.o) IN
         [i \in 1..Len(fs) |-> Flag(k \o <<".">> \o fs[i], textOf(v.o[fs[i]]))]
    [] v.t = "obj" /\ nested = "comma" ->
         LET fs == seqOf(DOMAIN v.o) IN
         <<Flag(k, join([i \in 1..Len(fs) |-> fs[i] \o <<"=">> \o textOf(v.o[fs[i]])], ","))>>
    [] OTHER -> <<Flag(k, textOf(v))>>

\* validated data (an object) as a flag vector
toFlags(data, nested) ==
  LET ks == seqOf(DOMAIN data.o) IN
  flatten([i \in 1..Len(ks) |-> flagsOf(ks[i], data.o[ks[i]], nested)])

\* parseAdvancedArgs and validateAdvancedArgs run on a flag vector against
\* the schema of the state
validatedAgain(flags) ==
  validateAdvancedArgs(parseAdvancedArgs(flags, protoProps).entries, schema,
                       protoProps).outcome

\* C11 (as claimed): round trip: when validation succeeds with data D, the
\* flags that stand for D (nested objects written in dot-path or in
\* comma-object syntax, arrays as repeated flags) validate against the
\* same schema and give D again.
C11_RoundTrip ==
  (pc = "validated" /\ options.success) =>
    \A nested \in {"dot", "comma"} :
      validatedAgain(toFlags(options.data, nested)) =
        [success |-> TRUE, data |-> options.data, issues |-> <<>>]

\* C11: the case is reached: --a=b=1,c=2 validated to {a:{b:1,c:2}}; its
\* comma-object flag gives the data again, its dot-path flags do not.
C11_Witness ==
  /\ pc = "validated"
  /\ schema = NestedSchema
  /\ options.success
  /\ options.data = Obj((K_a :> Obj((K_b :> Num(1)) @@ (K_c :> Num(2)))))
  /\ toFlags(options.data, "dot") \in
       { <<Flag(K_ab, <<"1">>), Flag(K_ac, <<"2">>)>>,
         <<Flag(K_ac, <<"2">>), Flag(K_ab, <<"1">>)>> }
  /\ validatedAgain(toFlags(options.data, "comma")).success
  /\ ~validatedAgain(toFlags(options.data, "dot")).success

---------------------------------------------------------------------------
(* The scanners on their own: parseAdvancedArgs and parseOptions (with     *)
(* z.any(), as execute calls it) applied to every token vector of the      *)
(* bounds, positional tokens and flags mixed.                              *)

\* longest token vector given to the scanners
MaxScan == 3

\* the tokens given to the scanners
ScanTokens ==
  { <<"x">>,                                                              \* x
    <<"-", "-", "v">>,                                                    \* --v
    <<"-", "v">>,                                                         \* -v
    <<"-", "-", "k", "=", "x">>,                                          \* --k=x
    <<"-", "k", "=", "x">>,                                               \* -k=x
    <<"-", "-", "k", "=", "1", ",", "2">>,                                \* --k=1,2
    <<"-", "-", "k", "=", "1", ",", "x">>,                                \* --k=1,x
    <<"-", "-", "k", "=", "x", ",">>,                                     \* --k=x,
    <<"-", "-", "k", "=", "f", "=", "x", ",", "c", "=", "y", ",", "z">>,  \* --k=f=x,c=y,z
    <<"-", "-", "k", "=", "a", ".", "b", "=", "2", ",", "a", "=", "1">>,  \* --k=a.b=2,a=1
    <<"-", "-", "k", "=", "a", "=", "1", ",", "a", ".", "b", "=", "2">>,  \* --k=a=1,a.b=2
    <<"-", "-", "a", ".", "b", "=", "2">>,                                \* --a.b=2
    <<"-", "-", "a", "=", "1">>,                                          \* --a=1
    <<"-", "-", "k", "=">> \o S_proto \o <<".", "a", "=", "1">>,          \* --k=__proto__.a=1
    <<"-", "-", "-", "k", "=", "1", ",", "x">>,                           \* ---k=1,x
    <<"-", "-", "k", "=", "x", ",", "a", "=", "1">>,                      \* --k=x,a=1
    <<"-", "-", "k", "=", "[", "1", "]">> }                               \* --k=[1]

\* the schemas given to parseOptions: z.any(), as execute gives it, and,
\* for argument vectors of at most MaxListed tokens, an object whose
\* field k is an array
ListSchema == ZObject(<<Field(<<"k">>, ZArray(ZAny))>>)
MaxListed == 2

InitScan ==
  /\ input \in SeqsUpTo(ScanTokens, MaxScan)
  /\ schema \in IF Len(input) <= MaxListed THEN {ZAny, ListSchema} ELSE {ZAny}
  /\ registry = <<>>
  /\ pc = "scan"
  /\ args = <<>>
  /\ command = NoCommand
  /\ caught = "none"
  /\ exitCode = NoResult
  /\ parsedArgs = <<>>
  /\ parsedObject = EmptyObj
  /\ options = NoOptions
  /\ result = NoResult
  /\ handlerCalls = 0
  /\ helpCalls = 0
  /\ log = <<>>
  /\ protoProps = <<>>
  /\ remaining = <<>>
  /\ steps = 0

\* parseOptions(input, z.any())
basicParsed(r) ==
  /\ parsedObject' = r.parsedObject
  /\ options' = r.outcome
  /\ protoProps' = r.proto
  /\ pc' = IF r.threw THEN "threw" ELSE "parsed"

BasicParse ==
  /\ pc = "scan"
  /\ basicParsed(parseOptions(input, schema, protoProps))
  /\ UNCHANGED <<input, registry, schema, args, command, caught, exitCode, parsedArgs,
                 result, handlerCalls, helpCalls, log, remaining, steps>>

NextScan == ScanFlags \/ BasicParse

SpecScan == InitScan /\ [][NextScan]_vars

---------------------------------------------------------------------------
(* Properties of the scanners (SpecScan).                                  *)

\* the chunks of a raw value that start a pair: those with an '='
pairChunks(raw) ==
  {c \in {split(raw, ",")[j] : j \in 1..Len(split(raw, ","))} : includes(c, "=")}

\* the dotted sub-keys assigned by the pairs of a raw value
dottedSubKeys(raw) ==
  {kp \in {trim(SubSeq(c, 1, indexOf(c, "=") - 1)) : c \in pairChunks(raw)} :
     includes(kp, ".")}

\* the dotted keys of the flags of the input that carry a value
dottedFlagKeys ==
  {kp \in {SubSeq(stripDashes(input[i]), 1, indexOf(stripDashes(input[i]), "=") - 1) :
             i \in {j \in 1..Len(input) : /\ startsWith(input[j], <<"-">>)
                                          /\ includes(input[j], "=")}} :
     includes(kp, ".")}

\* v is an object in which every prefix of the path is an object and the
\* last segment is present
RECURSIVE holdsPath(_, _)
holdsPath(v, segments) ==
  /\ v.t = "obj"
  /\ segments[1] \in DOMAIN v.o
  /\ Len(segments) = 1 \/ holdsPath(v.o[segments[1]], Tail(segments))

\* C12 (as claimed): dot-path assembly never clobbers an object with a
\* scalar: in the object a comma-object value is parsed into
\* (parse-advanced-args) and in the object parseOptions builds
\* (parse-options), every prefix of every dotted path that was assigned is
\* an object at the end and the value assigned below it is present,
\* whatever was assigned afterwards.
C12_NeverClobbered ==
  /\ pc = "validate" =>
       \A i \in 1..Len(parsedArgs) :
         \A kp \in dottedSubKeys(rawValue(i)) :
           holdsPath(parsedArgs[i].value, split(kp, "."))
  /\ pc = "parsed" =>
       \A kp \in dottedFlagKeys : holdsPath(parsedObject, split(kp, "."))

\* C12: the case is reached: a.b=2 then a=1 in one comma-object value left
\* {a: 1}, and --a.b=2 --a=1 left a as the array [{b: 2}, "1"].
C12_Witness ==
  \/ /\ pc = "validate"
     /\ input = <<Flag(<<"k">>, <<"a", ".", "b", "=", "2", ",", "a", "=", "1">>)>>
     /\ parsedArgs[1].value = Obj((K_a :> Num(1)))
  \/ /\ pc = "parsed"
     /\ input = <<Flag(K_ab, <<"2">>), Flag(K_a, <<"1">>)>>
     /\ parsedObject.o[K_a].t = "arr"
     /\ parsedObject.o[K_a].a = <<Obj((K_b :> Num(2))), Str(<<"1">>)>>

---------------------------------------------------------------------------
(* The schema navigator (SpecValidate).                                    *)

\* the nodes reached from the nodes N by the segments, each step going
\* from an object-kind node to its field of that name
RECURSIVE reached(_, _)
reached(N, segments) ==
  IF Len(segments) = 0 THEN N
  ELSE reached(
         UNION { IF n.type = "object"
                 THEN {n.shape[i].schema :
                         i \in {j \in 1..Len(n.shape) : n.shape[j].key = segments[1]}}
                 ELSE {} : n \in N },
         Tail(segments))

\* the path leads through object-kind nodes to an array-kind node or to a
\* union with an array-kind member
arrayKindAt(sch, path) ==
  \E n \in reached({sch}, split(path, ".")) :
    \/ n.type = "array"
    \/ n.type = "union" /\ \E i \in 1..Len(n.options) : n.options[i].type = "array"

\* the paths the navigator is asked about: the supplied keys, and below
\* each of them a field b
probedPaths == suppliedKeys \cup {k \o <<".">> \o K_b : k \in suppliedKeys}

\* the values of all occurrences of key k, in encounter order
valuesOf(k) ==
  [j \in 1..Cardinality(occurrencesOf(k)) |-> parsedArgs[nthOccurrence(k, j)].value]

\* C13: isArraySchemaAtPath is true exactly for a path that leads through
\* object-kind nodes to an array-kind node or to a union with an
\* array-kind member (false for a missing segment, for an intermediate
\* node that is no object, for a final node of another kind); so a key
\* supplied more than once is handed to validation as the array of its
\* values exactly in that case, and two occurrences of a flag declared
\* string | array<string> give the array of both values.
C13_IsArrayAt ==
  /\ \A p \in probedPaths : isArraySchemaAtPath(schema, p) <=> arrayKindAt(schema, p)
  /\ pc = "validated" =>
       \A k \in suppliedKeys :
         Cardinality(occurrencesOf(k)) >= 2 =>
           (parsedObject.o[k] = Arr(valuesOf(k)) <=> arrayKindAt(schema, k))

\* C13: the case is reached: --to=x --to=y against to: string |
\* array<string> validated to {to: ["x","y"]}.
C13_Witness ==
  /\ pc = "validated"
  /\ input = <<Flag(K_to, W_x), Flag(K_to, W_y)>>
  /\ schema = EmailSchema
  /\ options.success
  /\ options.data = Obj((K_to :> Arr(<<Str(W_x), Str(W_y)>>)))

---------------------------------------------------------------------------
(* Properties of the flag scanner (SpecScan).                              *)

\* a raw value with a comma that the empty, JSON and object-literal rules
\* leave alone
isListText(raw) ==
  /\ includes(raw, ",")
  /\ ~includes(raw, "=")
  /\ ~startsWith(raw, <<"[">>)
  /\ ~startsWith(raw, <<"{">>)

\* C14 (as claimed): every raw value with a comma that the empty, JSON
\* and object-literal rules leave alone is interpreted with kind array,
\* its elements being the primitive coercion of each piece, in order.
C14_EachPieceCoerced ==
  pc = "validate" =>
    \A i \in 1..Len(parsedArgs) :
      isListText(rawValue(i)) =>
        /\ parsedArgs[i].type = "array"
        /\ parsedArgs[i].value =
             Arr([j \in 1..Len(trimmedNonEmpty(split(rawValue(i), ","))) |->
                    parsePrimitiveValue(trimmedNonEmpty(split(rawValue(i), ","))[j])])

\* C14 (amended): such a raw value with at least two non-empty trimmed
\* pieces is interpreted with kind array: the numbers of the pieces when
\* every piece is numeric, otherwise the trimmed pieces as strings, none
\* of them coerced; with fewer than two non-empty pieces it is the
\* primitive coercion of the whole value, with kind primitive.
C14_ListRule ==
  pc = "validate" =>
    \A i \in 1..Len(parsedArgs) :
      isListText(rawValue(i)) =>
        IF Len(trimmedNonEmpty(split(rawValue(i), ","))) > 1
        THEN /\ parsedArgs[i].type = "array"
             /\ parsedArgs[i].value = piecesArray(trimmedNonEmpty(split(rawValue(i), ",")))
        ELSE /\ parsedArgs[i].type = "primitive"
             /\ parsedArgs[i].value = parsePrimitiveValue(rawValue(i))

\* C14: the case is reached: --k=1,2 gave the numbers [1,2], --k=1,x the
\* strings ["1","x"], and --k=x, the string "x,".
C14_Witness ==
  /\ pc = "validate"
  /\ input = << <<"-", "-", "k", "=", "1", ",", "2">>,
                <<"-", "-", "k", "=", "1", ",", "x">>,
                <<"-", "-", "k", "=", "x", ",">> >>
  /\ parsedArgs[1].value = Arr(<<Num(1), Num(2)>>)
  /\ parsedArgs[2].value = Arr(<<Str(<<"1">>), Str(<<"x">>)>>)
  /\ parsedArgs[2].type = "array"
  /\ parsedArgs[3].value = Str(<<"x", ",">>)
  /\ parsedArgs[3].type = "primitive"

\* the positions of the chunks of a raw value that start a pair
pairStarts(parts) == {i \in 1..Len(parts) : includes(parts[i], "=")}

\* the position after the chunks that belong to the pair started at i
pairEnd(parts, i) ==
  IF \E m \in pairStarts(parts) : m > i
  THEN CHOOSE m \in pairStarts(parts) : m > i /\ \A q \in pairStarts(parts) : q > i => m <= q
  ELSE Len(parts) + 1

\* the text of the pair started at chunk i, its sub-key and its value
pairText(parts, i) == join(SubSeq(parts, i, pairEnd(parts, i) - 1), ",")
pairKey(parts, i) == SubSeq(parts[i], 1, indexOf(parts[i], "=") - 1)
pairValue(parts, i) ==
  SubSeq(pairText(parts, i), indexOf(parts[i], "=") + 1, Len(pairText(parts, i)))

\* the pair started at chunk i is not written over by a later pair of the
\* same sub-key or of a path below it
lastOfKey(parts, i) ==
  \A m \in pairStarts(parts) :
    m > i => /\ pairKey(parts, m) # pairKey(parts, i)
             /\ ~startsWith(pairKey(parts, m), pairKey(parts, i) \o <<".">>)

\* the object a raw value with pairs stands for holds, under every plain
\* sub-key, the whole text of the pair's value, commas included
holdsPairs(v, raw) ==
  /\ v.t = "obj"
  /\ \A i \in pairStarts(split(raw, ",")) :
       ( /\ Len(pairKey(split(raw, ","), i)) > 0
         /\ ~includes(pairKey(split(raw, ","), i), ".")
         /\ lastOfKey(split(raw, ","), i) ) =>
         /\ pairKey(split(raw, ","), i) \in DOMAIN v.o
         /\ v.o[pairKey(split(raw, ","), i)] =
              parsePrimitiveValue(pairValue(split(raw, ","), i))

\* C15: in a raw value split on ',', each chunk with '=' starts a pair
\* whose sub-key is the text before its first '=', and the chunks without
\* '=' that follow it are rejoined onto its value with ',', so a value
\* with commas is kept whole; the result has kind object when a pair was
\* found.  Both scanners parse object literals this way.
C15_ObjectLiteral ==
  /\ pc = "validate" =>
       \A i \in 1..Len(parsedArgs) :
         (\E m \in pairStarts(split(rawValue(i), ",")) :
            Len(pairKey(split(rawValue(i), ","), m)) > 0) =>
           /\ parsedArgs[i].type = "object"
           /\ holdsPairs(parsedArgs[i].value, rawValue(i))
  /\ (pc = "parsed" /\ Len(input) = 1 /\ startsWith(input[1], <<"-", "-", "k", "=">>)
        /\ includes(SubSeq(input[1], 5, Len(input[1])), "=")) =>
       holdsPairs(parsedObject.o[<<"k">>], SubSeq(input[1], 5, Len(input[1])))

\* C15: the case is reached: --k=f=x,c=y,z scanned to {f:"x", c:"y,z"}
\* with kind object.
C15_Witness ==
  /\ pc = "validate"
  /\ input = << <<"-", "-", "k", "=", "f", "=", "x", ",", "c", "=", "y", ",", "z">> >>
  /\ parsedArgs[1].type = "object"
  /\ parsedArgs[1].value =
       Obj((<<"f">> :> Str(<<"x">>)) @@ (<<"c">> :> Str(<<"y", ",", "z">>)))

\* a flag token starts with a hyphen
isFlag(token) == startsWith(token, <<"-">>)

\* C16: parseAdvancedArgs processes every flag token independent of
\* position: the result has exactly one entry per token that starts with
\* '-', in token order, each entry's original being its token; positional
\* tokens, wherever they stand, contribute no entry.
C16_EntryPerFlag ==
  pc = "validate" =>
    /\ Len(parsedArgs) = Len(SelectSeq(input, isFlag))
    /\ \A i \in 1..Len(parsedArgs) : parsedArgs[i].original = SelectSeq(input, isFlag)[i]

\* C16: the case is reached: --v x -k=x, a positional token between two
\* flags, gave the two entries of --v and -k=x.
C16_Witness ==
  /\ pc = "validate"
  /\ input = << <<"-", "-", "v">>, <<"x">>, <<"-", "k", "=", "x">> >>
  /\ Len(parsedArgs) = 2
  /\ parsedArgs[1].original = <<"-", "-", "v">>
  /\ parsedArgs[2].original = <<"-", "k", "=", "x">>

---------------------------------------------------------------------------
(* The positional scanner (Spec).                                          *)

\* C17: parseArgs returns the maximal leading run of tokens that do not
\* start with '-': the result is a prefix of the input, holds no flag
\* token, and is followed in the input by a flag token or by the end of
\* the input; a positional-looking token after the first flag is never
\* included.
C17_LeadingRun ==
  pc # "start" =>
    /\ Len(args) <= Len(input)
    /\ args = SubSeq(input, 1, Len(args))
    /\ \A i \in 1..Len(args) : ~isFlag(args[i])
    /\ Len(args) = Len(input) \/ isFlag(input[Len(args) + 1])

\* C17: the case is reached: of root --n=1 child only root is positional.
C17_Witness ==
  /\ pc # "start"
  /\ input = <<W_root, Flag(K_n, <<"1">>), W_child>>
  /\ args = <<W_root>>

---------------------------------------------------------------------------
(* The flag syntax (SpecScan).                                             *)

\* a flag token without its one or two leading hyphens
flagBody(token) ==
  IF Len(token) >= 2 /\ token[2] = "-" THEN SubSeq(token, 3, Len(token))
  ELSE SubSeq(token, 2, Len(token))

\* the text of an entry's token after the entry's key and one '='
afterKey(entry) ==
  SubSeq(flagBody(entry.original), Len(entry.key) + 2, Len(flagBody(entry.original)))

\* C18: for every flag token with '=', the entry's key is the text of the
\* token, its one or two leading hyphens stripped, before the first '=',
\* and the raw value interpreted is everything after that first '=',
\* further '=' included; -key=value and --key=value give entries that
\* differ only in original.
C18_SplitOnFirstEqual ==
  pc = "validate" =>
    /\ \A i \in 1..Len(parsedArgs) :
         includes(parsedArgs[i].original, "=") =>
           /\ ~includes(parsedArgs[i].key, "=")
           /\ startsWith(flagBody(parsedArgs[i].original), parsedArgs[i].key \o <<"=">>)
           /\ parsedArgs[i].value =
                parseAdvancedValue(afterKey(parsedArgs[i]), protoProps).value
           /\ parsedArgs[i].type =
                parseAdvancedValue(afterKey(parsedArgs[i]), protoProps).type
    /\ \A i, j \in 1..Len(parsedArgs) :
         flagBody(parsedArgs[i].original) = flagBody(parsedArgs[j].original) =>
           /\ parsedArgs[i].key = parsedArgs[j].key
           /\ parsedArgs[i].value = parsedArgs[j].value
           /\ parsedArgs[i].type = parsedArgs[j].type

\* C18: the case is reached: --k=f=x,c=y,z has key k and a value made
\* from f=x,c=y,z, and -k=x and --k=x gave the same key and value.
C18_Witness ==
  /\ pc = "validate"
  /\ input = << <<"-", "-", "k", "=", "f", "=", "x", ",", "c", "=", "y", ",", "z">>,
                <<"-", "k", "=", "x">>,
                <<"-", "-", "k", "=", "x">> >>
  /\ parsedArgs[1].key = <<"k">>
  /\ <<"f">> \in DOMAIN parsedArgs[1].value.o
  /\ parsedArgs[2].key = <<"k">> /\ parsedArgs[3].key = <<"k">>
  /\ parsedArgs[2].value = Str(<<"x">>) /\ parsedArgs[3].value = Str(<<"x">>)
  /\ parsedArgs[2].original # parsedArgs[3].original

\* C19: every flag token without '=' (a bare flag such as --v) gives an
\* entry with value true and kind primitive whose key is the token
\* without its one or two leading hyphens.
C19_BareFlagTrue ==
  pc = "validate" =>
    \A i \in 1..Len(parsedArgs) :
      ~includes(parsedArgs[i].original, "=") =>
        /\ parsedArgs[i].value = Bool(TRUE)
        /\ parsedArgs[i].type = "primitive"
        /\ parsedArgs[i].key = flagBody(parsedArgs[i].original)

\* C19: the case is reached: --v and -v each gave the entry v = true.
C19_Witness ==
  /\ pc = "validate"
  /\ input = << <<"-", "-", "v">>, <<"-", "v">> >>
  /\ \A i \in 1..2 : /\ parsedArgs[i].key = <<"v">>
                     /\ parsedArgs[i].value = Bool(TRUE)
                     /\ parsedArgs[i].type = "primitive"

---------------------------------------------------------------------------
(* HelpCommand.handler on its own: called with every short token vector    *)
(* over every registration of distinct classes.                            *)

\* most commands registered, and longest token vector given to the handler
MaxCommands == 3
MaxHelpTokens == 2

\* the registrations: lists of distinct classes
HelpRegistries ==
  { r \in SeqsUpTo(HelpClasses, MaxCommands) :
      \A i, j \in 1..Len(r) : r[i] = r[j] => i = j }

InitHelp ==
  /\ input \in SeqsUpTo({W_root, W_child, W_help}, MaxHelpTokens)
  /\ registry \in HelpRegistries
  /\ schema = NoOpts
  /\ pc = "call"
  /\ args = <<>>
  /\ command = NoCommand
  /\ caught = "none"
  /\ exitCode = NoResult
  /\ parsedArgs = <<>>
  /\ parsedObject = EmptyObj
  /\ options = NoOptions
  /\ result = NoResult
  /\ handlerCalls = 0
  /\ helpCalls = 0
  /\ log = <<>>
  /\ protoProps = <<>>
  /\ remaining = <<>>
  /\ steps = 0

\* helpCommand.handler(input), this.commands being the registered commands
CallHelp ==
  /\ pc = "call"
  /\ helpEnds(helpHandler(input, registry))
  /\ helpCalls' = helpCalls + 1
  /\ pc' = "called"
  /\ UNCHANGED <<input, registry, schema, args, command, caught, exitCode, parsedArgs,
                 parsedObject, options, handlerCalls, protoProps,
                 remaining, steps>>

NextHelp == CallHelp

SpecHelp == InitHelp /\ [][NextHelp]_vars

\* the command registered at position i is in the child list of another
\* registered command
childOfAnother(i) ==
  \E j \in 1..Len(registry) :
    /\ j # i
    /\ \E m \in 1..Len(classDef(registry[j]).children) :
         classDef(registry[j]).children[m] = registry[i]

\* the positions of the registered commands that the general help lists:
\* one position of the registry for every line, in order
listedAt(f) ==
  /\ \A m \in 1..Len(log[1].commands) :
       /\ f[m] \in 1..Len(registry)
       /\ classDef(registry[f[m]]).name = log[1].commands[m]
  /\ \A m, q \in 1..Len(log[1].commands) : m < q => f[m] < f[q]

\* C20: the root-level listing of general help is the registered command
\* set minus exactly the commands in another command's child list: a
\* registered command that is a child of another is never listed, one
\* that is no other command's child is always listed.
C20_RootListing ==
  (pc = "called" /\ Len(helpOpts(input)) = 0) =>
    /\ Len(log) = 1 /\ log[1].line = "general-help"
    /\ \E f \in [1..Len(log[1].commands) -> 1..Len(registry)] :
         /\ listedAt(f)
         /\ \A i \in 1..Len(registry) :
              (\E m \in 1..Len(log[1].commands) : f[m] = i) <=> ~childOfAnother(i)

\* C20: the case is reached: with RootCommand (whose child is
\* ChildCommand), ChildCommand and a command of its own named "child"
\* registered, the general help lists root alone.
C20_Witness ==
  /\ pc = "called"
  /\ input = <<>>
  /\ registry = <<"RootCommand", "ChildCommand", "OtherChildCommand">>
  /\ log = <<[line |-> "general-help", commands |-> <<W_root>>]>>

---------------------------------------------------------------------------
(* The report of invalid options (Spec).                                   *)

\* the fields of RootCommand's options that the object handed to
\* validation violates, as dotted paths in declaration order: n is a
\* required number; a is optional and, if given, an object whose b is a
\* required number
violatedOfN ==
  IF K_n \in DOMAIN parsedObject.o /\ parsedObject.o[K_n].t = "num" THEN <<>> ELSE <<K_n>>
violatedOfA ==
  IF K_a \notin DOMAIN parsedObject.o THEN <<>>
  ELSE IF parsedObject.o[K_a].t # "obj" THEN <<K_a>>
  ELSE IF K_b \in DOMAIN parsedObject.o[K_a].o /\ parsedObject.o[K_a].o[K_b].t = "num" THEN <<>>
  ELSE <<K_ab>>

\* C21: on validation failure the result carries one error per violated
\* schema constraint, not only the first, each with the dotted path of
\* the offending field, and execute reports all of them, in order.
C21_EveryViolationReported ==
  (pc = "done" /\ command.class = "RootCommand" /\ handlerCalls = 0
     /\ result.kind = "return") =>
    /\ ~options.success
    /\ Len(options.issues) > 0
    /\ Len(options.issues) = Len(violatedOfN \o violatedOfA)
    /\ \A i \in 1..Len(options.issues) :
         join(options.issues[i].path, ".") = (violatedOfN \o violatedOfA)[i]
    /\ log[Len(log)] = [line |-> "issues", paths |-> violatedOfN \o violatedOfA]

\* C21: the case is reached: root --a=b=x --n=x violates both fields, and
\* execute reported --n and --a.b, in the order of the schema.
C21_Witness ==
  /\ pc = "done"
  /\ input = <<W_root, Flag(K_a, <<"b", "=", "x">>), Flag(K_n, W_x)>>
  /\ result = Returned(1)
  /\ log[Len(log)] = [line |-> "issues", paths |-> <<K_n, K_ab>>]

---------------------------------------------------------------------------
(* Purity of the scanners (SpecScan).                                      *)

\* the first segment of the key of a flag token
topKey(token) ==
  split(IF includes(flagBody(token), "=")
        THEN SubSeq(flagBody(token), 1, indexOf(flagBody(token), "=") - 1)
        ELSE flagBody(token), ".")[1]

\* C22: parsing is pure: for every input, key paths with a segment such
\* as __proto__ included, the scanners write only into the objects made
\* during the invocation and leave the state shared between invocations
\* (Object.prototype) as it was, so what a token gives does not depend
\* on what was processed before it: every entry is the entry of its
\* token scanned alone, and the option parsed from a second token of
\* another key is the option parsed from that token alone.
C22_Pure ==
  /\ protoProps = <<>>
  /\ pc = "validate" =>
       \A i \in 1..Len(parsedArgs) :
         <<parsedArgs[i]>> = parseAdvancedArgs(<<parsedArgs[i].original>>, <<>>).entries
  /\ ( /\ pc = "parsed"
       /\ Len(input) = 2
       /\ isFlag(input[1]) /\ isFlag(input[2])
       /\ topKey(input[1]) # topKey(input[2]) ) =>
       /\ topKey(input[2]) \in DOMAIN parsedObject.o
       /\ parsedObject.o[topKey(input[2])] =
            parseOptions(<<input[2]>>, schema, <<>>).parsedObject.o[topKey(input[2])]

\* C22: the case is reached: parseOptions of --k=__proto__.a=1 --a=1 wrote
\* a = 1 to Object.prototype and then gave a = [1, "1"], where --a=1
\* alone gives a = "1".
C22_Witness ==
  /\ pc = "parsed"
  /\ input = << <<"-", "-", "k", "=">> \o S_proto \o <<".", "a", "=", "1">>,
                <<"-", "-", "a", "=", "1">> >>
  /\ protoProps = (K_a :> Num(1))
  /\ parsedObject.o[K_a] = Arr(<<Num(1), Str(<<"1">>)>>)
  /\ parseOptions(<<input[2]>>, schema, <<>>).parsedObject.o[K_a] = Str(<<"1">>)

---------------------------------------------------------------------------
(* Optional wrappers and the schema navigator (SpecValidate).              *)

\* a schema without its optional wrappers
RECURSIVE unwrapped(_)
unwrapped(sch) ==
  CASE sch.type = "optional" -> unwrapped(sch.innerType)
    [] sch.type = "object" ->
         ZObject([i \in 1..Len(sch.shape) |->
                    Field(sch.shape[i].key, unwrapped(sch.shape[i].schema))])
    [] sch.type = "array" -> ZArray(unwrapped(sch.element))
    [] sch.type = "union" -> ZUnion([i \in 1..Len(sch.options) |-> unwrapped(sch.options[i])])
    [] OTHER -> sch

\* C23: optional wrappers are transparent to the schema navigator:
\* isArraySchemaAtPath answers for a schema as for the schema without its
\* optional wrappers, so repeated flags of an optional array field are
\* collected into an array.
C23_OptionalTransparent ==
  /\ \A p \in probedPaths :
       isArraySchemaAtPath(schema, p) <=> isArraySchemaAtPath(unwrapped(schema), p)
  /\ pc = "validated" =>
       \A k \in suppliedKeys :
         (Cardinality(occurrencesOf(k)) >= 2 /\ isArraySchemaAtPath(unwrapped(schema), k)) =>
           parsedObject.o[k] = Arr(valuesOf(k))

\* C23: the case is reached: --tags=y,z --tags=x against tags: optional
\* array<string> reached validation as tags = "x" and failed.
C23_Witness ==
  /\ pc = "validated"
  /\ input = <<Flag(K_tags, W_yz), Flag(K_tags, W_x)>>
  /\ schema = OptionalTagsSchema
  /\ parsedObject.o[K_tags] = Str(W_x)
  /\ ~options.success

---------------------------------------------------------------------------
(* Comma values in parseOptions (SpecScan).                                *)

\* a flag token with a value, its key (one or two leading hyphens
\* stripped) and its raw value
hasValue(token) == isFlag(token) /\ includes(token, "=")
optionKey(token) == SubSeq(flagBody(token), 1, indexOf(flagBody(token), "=") - 1)
optionRaw(token) ==
  SubSeq(flagBody(token), indexOf(flagBody(token), "=") + 1, Len(flagBody(token)))

\* the positions of the tokens that give a value to the key of token i,
\* and how many of them stand before token i
sameKey(i) == {j \in 1..Len(input) : hasValue(input[j]) /\ optionKey(input[j]) = optionKey(input[i])}
rankOf(i) == Cardinality({j \in sameKey(i) : j <= i})

\* the schema declares an array at the path
arrayAt(sch, path) == \E n \in reached({sch}, split(path, ".")) : n.type = "array"

\* the pieces of a comma value, each coerced
coercedPieces(raw) ==
  Arr([j \in 1..Len(trimmedNonEmpty(split(raw, ","))) |->
         parsePrimitiveValueOpt(trimmedNonEmpty(split(raw, ","))[j])])

\* C24: in parseOptions a value with ',' and without '=' is split into
\* the array of its coerced pieces if and only if the schema is
\* array-typed at the key and the key occurs exactly once in the input;
\* when the key occurs more than once, each occurrence's comma string is
\* kept whole as one element.
C24_SplitOnlyOnce ==
  pc = "parsed" =>
    \A i \in 1..Len(input) :
      ( /\ hasValue(input[i])
        /\ includes(optionRaw(input[i]), ",")
        /\ ~includes(optionRaw(input[i]), "=") ) =>
        /\ optionKey(input[i]) \in DOMAIN parsedObject.o
        /\ IF Cardinality(sameKey(i)) = 1
           THEN parsedObject.o[optionKey(input[i])] =
                  IF arrayAt(schema, optionKey(input[i]))
                  THEN coercedPieces(optionRaw(input[i]))
                  ELSE Str(optionRaw(input[i]))
           ELSE /\ parsedObject.o[optionKey(input[i])].t = "arr"
                /\ Len(parsedObject.o[optionKey(input[i])].a) = Cardinality(sameKey(i))
                /\ parsedObject.o[optionKey(input[i])].a[rankOf(i)] = Str(optionRaw(input[i]))

\* C24: the case is reached: against k: array, --k=1,x alone gave
\* k = [1, "x"].
C24_Witness ==
  /\ pc = "parsed"
  /\ schema = ListSchema
  /\ input = << <<"-", "-", "k", "=", "1", ",", "x">> >>
  /\ parsedObject.o[<<"k">>] = Arr(<<Num(1), Str(<<"x">>)>>)

\* the key parseOptions' main loop extracts from a flag token with a value
mainLoopKey(token) ==
  SubSeq(cleanOptionArg(token), 1, indexOf(cleanOptionArg(token), "=") - 1)

\* the key under which countOptionOccurrences counts the token
countedKey(token) ==
  SubSeq(stripDashes(token), 1, indexOf(stripDashes(token), "=") - 1)

\* C28: in parseOptions, for every flag token with '=', the key extracted
\* in the main loop equals the key under which countOptionOccurrences
\* counted the token, so the count consulted for the comma-splitting
\* decision is at least 1.
C28_CountedUnderSameKey ==
  pc = "parsed" =>
    \A i \in 1..Len(input) :
      hasValue(input[i]) =>
        /\ mainLoopKey(input[i]) = countedKey(input[i])
        /\ countOptionOccurrences(input, mainLoopKey(input[i])) >= 1

\* C28: the case is reached: for ---k=1,x the main loop extracts k, the
\* count is kept under -k, and against k: array the value stays "1,x".
C28_Witness ==
  /\ pc = "parsed"
  /\ schema = ListSchema
  /\ input = << <<"-", "-", "-", "k", "=", "1", ",", "x">> >>
  /\ mainLoopKey(input[1]) = <<"k">>
  /\ countedKey(input[1]) = <<"-", "k">>
  /\ countOptionOccurrences(input, <<"k">>) = 0
  /\ parsedObject.o[<<"k">>] = Str(<<"1", ",", "x">>)
  /\ ~options.success

---------------------------------------------------------------------------
(* The order of execute's steps (Spec).                                    *)

\* C25: in every run of execute the steps occur in the order scan,
\* resolve, parse/validate, dispatch: a command handler is invoked at
\* most once, and only after the positional scan, a successful
\* resolution of its result and a successful validation; the fallback
\* help handler and a resolved command's handler are never both invoked
\* in one run.
C25_StepOrder ==
  /\ handlerCalls \in {0, 1}
  /\ helpCalls \in {0, 1}
  /\ ~(handlerCalls = 1 /\ helpCalls = 1)
  /\ (pc = "dispatch" \/ handlerCalls = 1) =>
       /\ args = parseArgs(input)
       /\ caught = "none"
       /\ command.class \in Classes
       /\ resolveCommand(args, registry) = Resolved(command.class)
       /\ options.success
  /\ handlerCalls = 1 => pc = "done"
  /\ helpCalls = 1 => (pc = "done" /\ command = NoCommand /\ caught # "none")
  /\ pc \in {"options", "dispatch"} => (command # NoCommand /\ helpCalls = 0 /\ handlerCalls = 0)
  /\ pc \in {"start", "resolve"} =>
       (command = NoCommand /\ options = NoOptions /\ handlerCalls = 0 /\ helpCalls = 0)

\* C25: the case is reached: root --n=1 child ran the handler of root
\* once, after validation succeeded, and no help handler.
C25_Witness ==
  /\ pc = "done"
  /\ input = <<W_root, Flag(K_n, <<"1">>), W_child>>
  /\ command.class = "RootCommand"
  /\ options.success
  /\ handlerCalls = 1
  /\ helpCalls = 0

---------------------------------------------------------------------------
(* Totality of validation (SpecValidate).                                  *)

\* C26: validate is total: for every entry list and every key, keys that
\* are names of built-in object members (constructor, toString,
\* __proto__) included, validateAdvancedArgs returns a validation result,
\* success or failure, and never throws.
C26_ValidateTotal ==
  /\ pc # "threw"
  /\ pc = "validated" =>
       \/ options.success /\ Len(options.issues) = 0
       \/ ~options.success /\ Len(options.issues) > 0

\* C26: the case is reached: the entry of --constructor=x was handed to
\* validateAdvancedArgs, which threw a TypeError.
C26_Witness ==
  /\ pc = "threw"
  /\ input = <<Flag(<<"c","o","n","s","t","r","u","c","t","o","r">>, W_x)>>
  /\ Len(parsedArgs) = 1
  /\ parsedArgs[1].key = <<"c","o","n","s","t","r","u","c","t","o","r">>
  /\ options = NoOptions

---------------------------------------------------------------------------
(* Object literals keep their input (SpecScan).                            *)

\* the chunk at position m of the raw value starts a pair, or is rejoined
\* into the value of the pair started at a chunk before it
keptChunk(v, parts, m) ==
  \E i \in pairStarts(parts) :
    /\ i <= m /\ m < pairEnd(parts, i)
    /\ Len(pairKey(parts, i)) > 0
    /\ ~includes(pairKey(parts, i), ".")
    /\ pairKey(parts, i) \in DOMAIN v.o
    /\ lastOfKey(parts, i) =>
         v.o[pairKey(parts, i)] = parsePrimitiveValue(pairValue(parts, i))

\* C27: object-literal parsing loses no input: when a raw value is
\* interpreted as an object, every comma-delimited chunk of it is the
\* start of a pair or rejoined into the value of a pair; no chunk, in
\* particular none without '=' before the first pair (x,a=1), is
\* discarded.
C27_NoChunkLost ==
  pc = "validate" =>
    \A i \in 1..Len(parsedArgs) :
      ( /\ parsedArgs[i].type = "object"
        /\ includes(rawValue(i), "=")
        /\ ~includes(rawValue(i), ".") ) =>
        \A m \in 1..Len(split(rawValue(i), ",")) :
          keptChunk(parsedArgs[i].value, split(rawValue(i), ","), m)

\* C27: the case is reached: --k=x,a=1 was interpreted as the object
\* {a: 1}; the chunk x is nowhere in it.
C27_Witness ==
  /\ pc = "validate"
  /\ input = << <<"-", "-", "k", "=", "x", ",", "a", "=", "1">> >>
  /\ parsedArgs[1].type = "object"
  /\ parsedArgs[1].value = Obj((K_a :> Num(1)))

---------------------------------------------------------------------------
(* The kind of an entry (SpecScan).                                        *)

\* C29: every entry produced by scanFlags has a kind that matches the
\* shape of its value: kind array if and only if the value is an array,
\* kind object if and only if the value is a non-array object, and kind
\* primitive otherwise (boolean, number, string, null or undefined); no
\* other kind is produced.
C29_KindMatchesShape ==
  \A i \in 1..Len(parsedArgs) :
    /\ parsedArgs[i].type \in {"primitive", "array", "object"}
    /\ parsedArgs[i].type = "array" <=> parsedArgs[i].value.t = "arr"
    /\ parsedArgs[i].type = "object" <=> parsedArgs[i].value.t = "obj"
    /\ parsedArgs[i].type = "primitive" <=>
         parsedArgs[i].value.t \in {"bool", "num", "str", "null", "undef"}

\* C29: the case is reached: an array from JSON text, an object from an
\* object literal and a primitive from a bare flag are produced in one scan.
C29_Witness ==
  /\ pc = "validate"
  /\ input = << <<"-", "-", "k", "=", "[", "1", "]">>,
                <<"-", "-", "k", "=", "x", ",", "a", "=", "1">>,
                <<"-", "-", "v">> >>
  /\ parsedArgs[1].type = "array" /\ parsedArgs[1].value = Arr(<<Num(1)>>)
  /\ parsedArgs[2].type = "object" /\ parsedArgs[2].value.t = "obj"
  /\ parsedArgs[3].type = "primitive" /\ parsedArgs[3].value = Bool(TRUE)

---------------------------------------------------------------------------
(* resolveCommand call by call: the lookup at the root, then one call of   *)
(* findNestedCommand per step.  command is the current command, remaining  *)
(* the tokens still to be matched, steps the descents made.  The calls are *)
(* synchronous, so a call that can be made is made (weak fairness).        *)

\* longest positional sequence given to resolveCommand
MaxDepth == 4

\* the positional tokens and the registrations given to resolveCommand
ResolveTokens == {W_ping, W_pong, W_root, W_child}
ResolveRegistries ==
  { <<"PingCommand", "PongCommand">>,
    <<"RootCommand", "ChildCommand", "PingCommand">> }

InitResolve ==
  /\ input = <<>>
  /\ registry \in ResolveRegistries
  /\ schema = NoOpts
  /\ pc = "resolveCommand"
  /\ args \in SeqsUpTo(ResolveTokens, MaxDepth)
  /\ command = NoCommand
  /\ caught = "none"
  /\ exitCode = NoResult
  /\ parsedArgs = <<>>
  /\ parsedObject = EmptyObj
  /\ options = NoOptions
  /\ result = NoResult
  /\ handlerCalls = 0
  /\ helpCalls = 0
  /\ log = <<>>
  /\ protoProps = <<>>
  /\ remaining = <<>>
  /\ steps = 0

\* throw new NoCommandSpecifiedError() / new CommandNotFoundError()
throws(error) ==
  /\ caught' = error
  /\ pc' = "thrown"
  /\ UNCHANGED <<command, remaining, steps>>

\* the command of class id was matched by the first of the tokens rest:
\* it is the current command of the next call, made with rest.slice(1)
descends(id, rest) ==
  /\ command' = [class |-> id]
  /\ remaining' = Tail(rest)
  /\ steps' = steps + 1
  /\ UNCHANGED caught

\* the body of resolveCommand: the root command is found among the
\* registered commands; with one token it is returned at once
ResolveRoot ==
  /\ pc = "resolveCommand"
  /\ IF Len(args) = 0 THEN throws("NoCommandSpecifiedError")
     ELSE IF findByName(registry, args[1]) = 0 THEN throws("CommandNotFoundError")
     ELSE /\ descends(registry[findByName(registry, args[1])], args)
          /\ pc' = IF Len(args) = 1 THEN "resolved" ELSE "findNestedCommand"
  /\ UNCHANGED <<input, registry, schema, args, exitCode, parsedArgs, parsedObject,
                 options, result, handlerCalls, helpCalls, log, protoProps>>

\* A variant of findNestedStep that descends without slicing the tokens;
\* C30's formula tells it from findNestedStep.
findNestedStepKeep(currentCommand, remainingArgs) ==
  IF Len(remainingArgs) = 0
  THEN pc' = "resolved" /\ UNCHANGED <<command, caught, remaining, steps>>
  ELSE IF findByName(classDef(currentCommand).children, remainingArgs[1]) = 0
  THEN throws("CommandNotFoundError")
  ELSE /\ command' = [class |-> classDef(currentCommand).children[
                        findByName(classDef(currentCommand).children, remainingArgs[1])]]
       /\ steps' = steps + 1
       /\ pc' = "findNestedCommand"
       /\ UNCHANGED <<caught, remaining>>

\* one call of findNestedCommand(currentCommand, remainingArgs), up to its
\* return, its throw or its recursive call
findNestedStep(currentCommand, remainingArgs) ==
  IF Len(remainingArgs) = 0
  THEN pc' = "resolved" /\ UNCHANGED <<command, caught, remaining, steps>>
  ELSE IF findByName(classDef(currentCommand).children, remainingArgs[1]) = 0
  THEN throws("CommandNotFoundError")
  ELSE /\ descends(classDef(currentCommand).children[
                     findByName(classDef(currentCommand).children, remainingArgs[1])],
                   remainingArgs)
       /\ pc' = "findNestedCommand"

FindNested ==
  /\ pc = "findNestedCommand"
  /\ findNestedStep(command.class, remaining)
  /\ UNCHANGED <<input, registry, schema, args, exitCode, parsedArgs, parsedObject,
                 options, result, handlerCalls, helpCalls, log, protoProps>>

NextResolve == ResolveRoot \/ FindNested

SpecResolve == InitResolve /\ [][NextResolve]_vars /\ WF_vars(NextResolve)

---------------------------------------------------------------------------
(* Termination of resolveCommand (SpecResolve).                            *)

\* the run of resolveCommand is over
resolveEnded == pc \in {"resolved", "thrown"}

\* what holds of the tokens consumed in every state of a run
oneTokenPerDescent ==
  /\ steps <= Len(args)
  /\ pc \in {"findNestedCommand", "resolved"} =>
       /\ steps + Len(remaining) = Len(args)
       /\ remaining = SubSeq(args, steps + 1, Len(args))
  /\ pc = "resolved" =>
       /\ remaining = <<>>
       /\ resolveCommand(args, registry) = Resolved(command.class)
  /\ pc = "thrown" =>
       /\ resolveCommand(args, registry) = Thrown(caught)
       /\ caught = IF Len(args) = 0 THEN "NoCommandSpecifiedError"
                   ELSE "CommandNotFoundError"

\* C30: resolveCommand terminates for every positional sequence and every
\* command forest, forests whose child lists are cyclic included (Ping
\* lists Pong and Pong lists Ping): every descent consumes exactly one
\* token, and the run ends, with the resolved command or with
\* CommandNotFoundError (with NoCommandSpecifiedError, before any descent,
\* for the empty sequence), after at most as many steps as there are
\* tokens.
C30_Terminates == []oneTokenPerDescent /\ <>resolveEnded

\* C30: the case is reached: four tokens were resolved by four descents
\* round the cycle Ping, Pong, Ping, Pong.
C30_Witness ==
  /\ pc = "resolved"
  /\ registry = <<"PingCommand", "PongCommand">>
  /\ args = <<W_ping, W_pong, W_ping, W_pong>>
  /\ steps = 4
  /\ remaining = <<>>
  /\ command.class = "PongCommand"

=============================================================================
